---- MODULE Spec2Model ----
(***************************************************************************)
(* A model of the Debian version and dependency engine of rust-debian:     *)
(* src/src/version.rs (VersionElement, VersionPart, Version: parsing,      *)
(* ordering, rendering) and src/src/control.rs (parse_single_dep,          *)
(* parse_dep_list).                                                        *)
(*                                                                         *)
(* A Rust string is a sequence of one-character strings.  An unsigned      *)
(* integer (u32, u64) is a triple of base-10^7 limbs <<hi, mid, lo>>, so   *)
(* that values up to 10 * 2^64 are exact.  Option<T> is a sequence of      *)
(* length 0 (None) or 1 (Some).  A Result is a record with a status field  *)
(* "Ok", "Err" or "Panic".                                                 *)
(***************************************************************************)
EXTENDS Integers, Sequences, FiniteSets, TLC

VARIABLES
    overflow_checks, \* the build profile: arithmetic overflow panics (debug) or wraps (release)
    pc,              \* position of the caller
    s,               \* input text of Version::parse / Version::parse_part
    parsed,          \* result of Version::parse(s)
    text,            \* rendered text (Display)
    reparsed,        \* result of Version::parse(text)
    part,            \* result of Version::parse_part(s)
    sa, sb, sc,      \* input texts of three versions that are compared
    va, vb, vc,      \* their parse results
    ord,             \* results of the comparisons among va, vb, vc
    dl,              \* input text of parse_dep_list
    deps,            \* result of parse_dep_list(dl)
    dep,             \* input text of parse_single_dep
    pos,             \* number of characters of dep the scanner has read
    scan,            \* the scanner's locals (st, result, vrel, vdef, arch)
    single,          \* result of parse_single_dep(dep)
    entries,         \* the entries of a ControlParagraph
    ret,             \* the last call on the paragraph and what it returned
    file,            \* the lines of a control file
    ln,              \* number of read_line calls ControlFile::from_file has made
    cur_entry,       \* from_file: the text of the field being read
    cur_para,        \* from_file: the paragraph being filled
    paragraphs       \* from_file: the paragraphs emitted so far

vars == <<overflow_checks, pc, s, parsed, text, reparsed, part,
          sa, sb, sc, va, vb, vc, ord, dl, deps, dep, pos, scan, single,
          entries, ret, file, ln, cur_entry, cur_para, paragraphs>>

scanVars == <<dep, pos, scan, single>>

ctlVars == <<entries, ret, file, ln, cur_entry, cur_para, paragraphs>>

\* The value of a variable that no operation has written yet.
Idle == [status |-> "Idle"]

\* No ControlParagraph and no ControlFile is in use.
ControlIdle ==
    /\ entries = Idle /\ ret = Idle
    /\ file = Idle /\ ln = 0 /\ cur_entry = Idle /\ cur_para = Idle /\ paragraphs = Idle

(***************************************************************************)
(* Bounds of the model.                                                    *)
(***************************************************************************)
MaxLen == 4
MaxOrdLen == 2
MaxDepLen == 4
MaxScanLen == 3
MaxEntries == 3
MaxLines == 3

(***************************************************************************)
(* Characters.                                                             *)
(***************************************************************************)
Digits == <<"0", "1", "2", "3", "4", "5", "6", "7", "8", "9">>

IsAsciiDigit(c) == \E i \in 1..10 : Digits[i] = c

DigitVal(c) == (CHOOSE i \in 1..10 : Digits[i] = c) - 1

IsWhitespace(c) == c \in {" ", "\t", "\n"}

\* The code point of a character (ASCII), which orders strings.
CharCode(c) ==
    CASE c = "\t" -> 9   [] c = "\n" -> 10  [] c = " " -> 32  [] c = "!" -> 33
      [] c = "$" -> 36   [] c = "(" -> 40   [] c = ")" -> 41  [] c = "+" -> 43
      [] c = "," -> 44   [] c = "-" -> 45   [] c = "." -> 46
      [] IsAsciiDigit(c) -> 48 + DigitVal(c)
      [] c = ":" -> 58   [] c = "<" -> 60   [] c = "=" -> 61  [] c = ">" -> 62
      [] c = "V" -> 86   [] c = "[" -> 91   [] c = "]" -> 93
      [] c = "a" -> 97   [] c = "b" -> 98   [] c = "c" -> 99  [] c = "d" -> 100
      [] c = "e" -> 101  [] c = "f" -> 102  [] c = "g" -> 103 [] c = "i" -> 105
      [] c = "n" -> 110  [] c = "o" -> 111  [] c = "p" -> 112 [] c = "r" -> 114
      [] c = "s" -> 115  [] c = "u" -> 117  [] c = "y" -> 121 [] c = "z" -> 122
      [] c = "{" -> 123  [] c = "|" -> 124  [] c = "}" -> 125 [] c = "~" -> 126

\* All strings over the characters cs of length at most n.
RECURSIVE StringsUpTo(_, _)
StringsUpTo(cs, n) ==
    IF n = 0 THEN {<<>>}
    ELSE LET shorter == StringsUpTo(cs, n - 1)
         IN  shorter \cup {Append(w, c) : w \in shorter, c \in cs}

(***************************************************************************)
(* Unsigned integers as limbs.                                             *)
(***************************************************************************)
Base == 10^7

Zero == <<0, 0, 0>>

UInt(n) == <<0, n \div Base, n % Base>>

\* 2^64 and the largest u64 and u32.
TwoTo64 == <<184467, 4407370, 9551616>>
U64Max == <<184467, 4407370, 9551615>>
U32Max == <<0, 429, 4967295>>

UCmp(x, y) ==
    IF x[1] # y[1] THEN (IF x[1] < y[1] THEN "Less" ELSE "Greater")
    ELSE IF x[2] # y[2] THEN (IF x[2] < y[2] THEN "Less" ELSE "Greater")
    ELSE IF x[3] # y[3] THEN (IF x[3] < y[3] THEN "Less" ELSE "Greater")
    ELSE "Equal"

ULe(x, y) == UCmp(x, y) # "Greater"

\* 10 * x + d, exact (x at most 2^64 - 1).
MulAdd10(x, d) ==
    LET lo == x[3] * 10 + d
        mid == x[2] * 10 + (lo \div Base)
        hi == x[1] * 10 + (mid \div Base)
    IN  <<hi, mid % Base, lo % Base>>

\* x - y for x >= y.
USub(x, y) ==
    LET b3 == IF x[3] < y[3] THEN 1 ELSE 0
        lo == x[3] + b3 * Base - y[3]
        b2 == IF x[2] - b3 < y[2] THEN 1 ELSE 0
        mid == x[2] - b3 + b2 * Base - y[2]
    IN  <<x[1] - b2 - y[1], mid, lo>>

\* x modulo 2^64: what wrapping u64 arithmetic keeps.
RECURSIVE WrapU64(_)
WrapU64(x) == IF ULe(x, U64Max) THEN x ELSE WrapU64(USub(x, TwoTo64))

\* The decimal digits of a natural number below Base, without leading zeros.
RECURSIVE DecimalOfNat(_)
DecimalOfNat(n) ==
    IF n < 10 THEN <<Digits[n + 1]>>
    ELSE Append(DecimalOfNat(n \div 10), Digits[(n % 10) + 1])

\* The seven digits of a limb, zero-padded.
RECURSIVE PadLimb(_, _)
PadLimb(n, width) ==
    IF width = 0 THEN <<>>
    ELSE Append(PadLimb(n \div 10, width - 1), Digits[(n % 10) + 1])

\* The decimal form of an unsigned integer ("{}" of u32 and u64).
Decimal(x) ==
    IF x[1] # 0 THEN DecimalOfNat(x[1]) \o PadLimb(x[2], 7) \o PadLimb(x[3], 7)
    ELSE IF x[2] # 0 THEN DecimalOfNat(x[2]) \o PadLimb(x[3], 7)
    ELSE DecimalOfNat(x[3])

(***************************************************************************)
(* Results.                                                                *)
(***************************************************************************)
None == <<>>
Some(x) == <<x>>

Ok(v) == [status |-> "Ok", v |-> v]
Panic == [status |-> "Panic"]
IsOk(r) == r.status = "Ok"

\* u32::from_str: an optional '+', then one or more digits, no overflow.
RECURSIVE U32Digits(_, _, _)
U32Digits(str, i, acc) ==
    IF i > Len(str) THEN Ok(acc)
    ELSE IF ~IsAsciiDigit(str[i]) THEN [status |-> "Err"]
    ELSE LET r == MulAdd10(acc, DigitVal(str[i]))
         IN  IF ULe(r, U32Max) THEN U32Digits(str, i + 1, r)
             ELSE [status |-> "Err"]

\* An integer parse that also takes a leading '-' (as a signed type does).
U32FromStrSigned(str) ==
    IF str = <<>> THEN [status |-> "Err"]
    ELSE IF str[1] \in {"+", "-"} /\ Len(str) = 1 THEN [status |-> "Err"]
    ELSE IF str[1] \in {"+", "-"} THEN U32Digits(str, 2, Zero)
    ELSE U32Digits(str, 1, Zero)

U32FromStr(str) ==
    IF str = <<>> THEN [status |-> "Err"]
    ELSE IF str[1] \in {"+", "-"} /\ Len(str) = 1 THEN [status |-> "Err"]
    ELSE IF str[1] = "+" THEN U32Digits(str, 2, Zero)
    ELSE U32Digits(str, 1, Zero)

(***************************************************************************)
(* Version::parse_part                                                     *)
(***************************************************************************)
VersionElement(alpha, numeric) == [alpha |-> alpha, numeric |-> numeric]

RECURSIVE ParsePartLoop(_, _, _, _, _, _)
ParsePartLoop(str, i, elements, in_numeric_part, cur, checks) ==
    IF i > Len(str) THEN Ok(Append(elements, cur))
    ELSE LET c == str[i] IN
         IF IsAsciiDigit(c) THEN
             LET r == MulAdd10(cur.numeric, DigitVal(c))
             IN  IF checks /\ ~ULe(r, U64Max) THEN Panic
                 ELSE ParsePartLoop(str, i + 1, elements, TRUE,
                                    [cur EXCEPT !.numeric = WrapU64(r)], checks)
         ELSE IF ~in_numeric_part THEN
             ParsePartLoop(str, i + 1, elements, FALSE,
                           [cur EXCEPT !.alpha = Append(@, c)], checks)
         ELSE
             ParsePartLoop(str, i + 1, Append(elements, cur), FALSE,
                           VersionElement(<<c>>, Zero), checks)

\* parse_part without the early return for the empty text.
parse_part_always_pushing(str, checks) ==
    ParsePartLoop(str, 1, <<>>, FALSE, VersionElement(<<>>, Zero), checks)

parse_part(str, checks) ==
    IF str = <<>> THEN Ok(<<>>)
    ELSE ParsePartLoop(str, 1, <<>>, FALSE, VersionElement(<<>>, Zero), checks)

(***************************************************************************)
(* Display for VersionElement, VersionPart and Version                     *)
(***************************************************************************)
DisplayElement(e) == e.alpha \o Decimal(e.numeric)

RECURSIVE DisplayPart(_)
DisplayPart(elements) ==
    IF elements = <<>> THEN <<>>
    ELSE DisplayElement(Head(elements)) \o DisplayPart(Tail(elements))

count_elements(elements) == Len(elements)

\* A slip: the epoch prefix is written whatever the epoch.
DisplayVersionAlwaysEpoch(v) ==
    IF count_elements(v.debian_revision) = 0 THEN
        Decimal(v.epoch) \o <<":">> \o DisplayPart(v.upstream_version)
    ELSE
        Decimal(v.epoch) \o <<":">> \o DisplayPart(v.upstream_version)
            \o <<"-">> \o DisplayPart(v.debian_revision)

DisplayVersion(v) ==
    IF v.epoch = Zero /\ count_elements(v.debian_revision) = 0 THEN
        DisplayPart(v.upstream_version)
    ELSE IF v.epoch = Zero THEN
        DisplayPart(v.upstream_version) \o <<"-">> \o DisplayPart(v.debian_revision)
    ELSE IF count_elements(v.debian_revision) = 0 THEN
        Decimal(v.epoch) \o <<":">> \o DisplayPart(v.upstream_version)
    ELSE
        Decimal(v.epoch) \o <<":">> \o DisplayPart(v.upstream_version)
            \o <<"-">> \o DisplayPart(v.debian_revision)

(***************************************************************************)
(* Version::parse                                                          *)
(***************************************************************************)
\* str::find and str::rfind of one character: its position, 0 for None.
Find(str, c) ==
    IF \E i \in 1..Len(str) : str[i] = c
    THEN CHOOSE i \in 1..Len(str) : str[i] = c /\ \A j \in 1..(i - 1) : str[j] # c
    ELSE 0

RFind(str, c) ==
    IF \E i \in 1..Len(str) : str[i] = c
    THEN CHOOSE i \in 1..Len(str) : str[i] = c /\ \A j \in (i + 1)..Len(str) : str[j] # c
    ELSE 0

first_colon(str) == Find(str, ":")

\* A slip: the first '-' instead of the last.
first_dash(str) == Find(str, "-")

last_dash(str) == RFind(str, "-")

\* &str[from..to) by positions: the characters at from .. to - 1; a range that
\* starts after its end panics.
Slice(str, from, to) ==
    IF from > to THEN Panic ELSE Ok(SubSeq(str, from, to - 1))

ParseError == [status |-> "Err", pos |-> 0, msg |-> "Expected a numeric epoch."]

Version(epoch, upstream, revision) ==
    [epoch |-> epoch, upstream_version |-> upstream, debian_revision |-> revision]

\* The parts of a version from the two slices (either may have panicked).
VersionOfSlices(epoch, up_slice, rev_slice, checks) ==
    IF ~IsOk(up_slice) THEN Panic
    ELSE LET up == parse_part(up_slice.v, checks) IN
         IF ~IsOk(up) THEN Panic
         ELSE IF ~IsOk(rev_slice) THEN Panic
         ELSE LET rev == parse_part(rev_slice.v, checks) IN
              IF ~IsOk(rev) THEN Panic
              ELSE Ok(Version(epoch, up.v, rev.v))

VersionNoRevision(epoch, up_slice, checks) ==
    IF ~IsOk(up_slice) THEN Panic
    ELSE LET up == parse_part(up_slice.v, checks) IN
         IF ~IsOk(up) THEN Panic ELSE Ok(Version(epoch, up.v, <<>>))

parse(str, checks) ==
    LET l == first_colon(str)
        r == last_dash(str)
        n == Len(str) + 1
        epoch == IF l # 0 THEN U32FromStr(SubSeq(str, 1, l - 1)) ELSE Ok(Zero)
    IN  IF ~IsOk(epoch) THEN ParseError
        ELSE IF l # 0 /\ r # 0 THEN
            VersionOfSlices(epoch.v, Slice(str, l + 1, r), Slice(str, r + 1, n), checks)
        ELSE IF l # 0 THEN
            VersionNoRevision(epoch.v, Slice(str, l + 1, n), checks)
        ELSE IF r # 0 THEN
            VersionOfSlices(Zero, Slice(str, 1, r), Slice(str, r + 1, n), checks)
        ELSE
            VersionNoRevision(Zero, Ok(str), checks)

(***************************************************************************)
(* Inputs of the version specification.                                    *)
(***************************************************************************)
VersionChars == {"0", "1", "a", ":", "-"}

VersionTexts ==
    { <<"7", ":", "2", ".", "1", ".", "4", "-", "0", "~", "b", "p", "o", "2">>,
      <<"1", ":", "1", ":", "1", "-", "8", "-", "8">>,
      <<"0", ":", "1", ".", "0">>,
      <<"1", ".", "0">>,
      <<"1", ".", "0", "a">>,
      <<"+", "1", ":", "2">>,
      <<"0", ":", "1", ":", "2">>,
      <<"1", "-", "2", "-">>,
      <<"4", "2", "9", "4", "9", "6", "7", "2", "9", "5", ":", "1">>,
      <<"4", "2", "9", "4", "9", "6", "7", "2", "9", "6", ":", "1">>,
      <<"1", "8", "4", "4", "6", "7", "4", "4", "0", "7", "3", "7", "0", "9", "5",
        "5", "1", "6", "1", "5">>,
      <<"1", "8", "4", "4", "6", "7", "4", "4", "0", "7", "3", "7", "0", "9", "5",
        "5", "1", "6", "1", "6">>,
      <<"9", "9", "9", "9", "9", "9", "9", "9", "9", "9", "9", "9", "9", "9", "9",
        "9", "9", "9", "9", "9", "-", "1">> }

VersionInputs == StringsUpTo(VersionChars, MaxLen) \cup VersionTexts

(***************************************************************************)
(* The version specification: a caller parses a text as a version or as a  *)
(* part, renders the result and parses the rendered text again.            *)
(***************************************************************************)
Init ==
    /\ overflow_checks \in BOOLEAN
    /\ pc = "start"
    /\ s \in VersionInputs
    /\ parsed = Idle /\ text = Idle /\ reparsed = Idle /\ part = Idle
    /\ sa = Idle /\ sb = Idle /\ sc = Idle
    /\ va = Idle /\ vb = Idle /\ vc = Idle /\ ord = Idle
    /\ dl = Idle /\ deps = Idle
    /\ dep = Idle /\ pos = 0 /\ scan = Idle /\ single = Idle
    /\ ControlIdle

Parse ==
    /\ pc = "start"
    /\ parsed' = parse(s, overflow_checks)
    /\ pc' = "parsed"
    /\ UNCHANGED <<ctlVars, scanVars, overflow_checks, s, text, reparsed, part,
                   sa, sb, sc, va, vb, vc, ord, dl, deps>>

Display ==
    /\ pc = "parsed"
    /\ IsOk(parsed)
    /\ text' = DisplayVersion(parsed.v)
    /\ pc' = "rendered"
    /\ UNCHANGED <<ctlVars, scanVars, overflow_checks, s, parsed, reparsed, part,
                   sa, sb, sc, va, vb, vc, ord, dl, deps>>

Reparse ==
    /\ pc = "rendered"
    /\ reparsed' = parse(text, overflow_checks)
    /\ pc' = "reparsed"
    /\ UNCHANGED <<ctlVars, scanVars, overflow_checks, s, parsed, text, part,
                   sa, sb, sc, va, vb, vc, ord, dl, deps>>

ParsePart ==
    /\ pc = "start"
    /\ part' = parse_part(s, overflow_checks)
    /\ pc' = "part_parsed"
    /\ UNCHANGED <<ctlVars, scanVars, overflow_checks, s, parsed, text, reparsed,
                   sa, sb, sc, va, vb, vc, ord, dl, deps>>

DisplayVersionPart ==
    /\ pc = "part_parsed"
    /\ IsOk(part)
    /\ text' = DisplayPart(part.v)
    /\ pc' = "part_rendered"
    /\ UNCHANGED <<ctlVars, scanVars, overflow_checks, s, parsed, reparsed, part,
                   sa, sb, sc, va, vb, vc, ord, dl, deps>>

Next == Parse \/ Display \/ Reparse \/ ParsePart \/ DisplayVersionPart

Spec == Init /\ [][Next]_vars

(***************************************************************************)
(* Derived PartialEq of VersionElement, VersionPart (Vec) and Version.     *)
(***************************************************************************)
ElementEq(x, y) == x.alpha = y.alpha /\ x.numeric = y.numeric

PartEq(xs, ys) ==
    /\ Len(xs) = Len(ys)
    /\ \A i \in 1..Len(xs) : ElementEq(xs[i], ys[i])

\* A slip: the epoch is left out of the equality.
VersionEqNoEpoch(x, y) ==
    /\ PartEq(x.upstream_version, y.upstream_version)
    /\ PartEq(x.debian_revision, y.debian_revision)

VersionEq(x, y) ==
    /\ x.epoch = y.epoch
    /\ PartEq(x.upstream_version, y.upstream_version)
    /\ PartEq(x.debian_revision, y.debian_revision)

(***************************************************************************)
(* Claims about Version::parse, Version::parse_part and Display.           *)
(***************************************************************************)
SetMin(S) == CHOOSE x \in S : \A y \in S : x <= y
SetMax(S) == CHOOSE x \in S : \A y \in S : y <= x

PositionsOf(str, c) == {i \in 1..Len(str) : str[i] = c}

\* Where the claim C1 puts the two separators: the first ':' (0 when there is
\* none) and the last '-' (one past the end when there is none).
EpochSeparator(str) ==
    IF PositionsOf(str, ":") = {} THEN 0 ELSE SetMin(PositionsOf(str, ":"))
RevisionSeparator(str) ==
    IF PositionsOf(str, "-") = {} THEN Len(str) + 1 ELSE SetMax(PositionsOf(str, "-"))

HasParsed == pc \in {"parsed", "rendered", "reparsed"}

\* C1: Version::parse splits only at the first ':' and the last '-': the epoch
\* is the number before the first ':' (0 without a ':'), upstream_version is
\* the text between the first ':' (or the start) and the last '-' (or the
\* end), debian_revision the text after the last '-' (empty without a '-');
\* "1:1:1-8-8" gives epoch 1, upstream "1:1-8", revision "8".
C1_SplitsAtFirstColonAndLastDash ==
    (HasParsed /\ IsOk(parsed)) =>
        LET c == EpochSeparator(s)
            d == RevisionSeparator(s)
            v == parsed.v
        IN  /\ v.epoch = IF c = 0 THEN Zero ELSE U32FromStr(SubSeq(s, 1, c - 1)).v
            /\ c < d
            /\ v.upstream_version = parse_part(SubSeq(s, c + 1, d - 1), overflow_checks).v
            /\ v.debian_revision = parse_part(SubSeq(s, d + 1, Len(s)), overflow_checks).v
            /\ (s = <<"1", ":", "1", ":", "1", "-", "8", "-", "8">> =>
                    /\ v.epoch = UInt(1)
                    /\ DisplayPart(v.upstream_version) = <<"1", ":", "1", "-", "8">>
                    /\ DisplayPart(v.debian_revision) = <<"8">>)

C1_Witness ==
    /\ pc = "parsed"
    /\ s = <<"1", ":", "1", ":", "1", "-", "8", "-", "8">>
    /\ IsOk(parsed)
    /\ parsed.v.epoch = UInt(1)
    /\ Len(parsed.v.upstream_version) = 3
    /\ Len(parsed.v.debian_revision) = 1

\* C5: for every text Version::parse accepts, parsing the rendered text gives
\* an equal Version.
C5_RoundTripGivesEqualVersion ==
    pc = "reparsed" => (IsOk(reparsed) /\ VersionEq(reparsed.v, parsed.v))

\* C6: a Version renders as epoch:upstream-revision, the "epoch:" prefix
\* left out exactly when epoch is 0, the "-revision" suffix left out exactly
\* when debian_revision has no element.
C6_CanonicalRendering ==
    pc = "rendered" =>
        LET v == parsed.v
            prefix == IF v.epoch = Zero THEN <<>> ELSE Decimal(v.epoch) \o <<":">>
            suffix == IF Len(v.debian_revision) = 0 THEN <<>>
                      ELSE <<"-">> \o DisplayPart(v.debian_revision)
        IN  text = prefix \o DisplayPart(v.upstream_version) \o suffix

C6_Witness ==
    /\ pc = "rendered"
    /\ s = <<"0", ":", "1", ".", "0">>
    /\ text = <<"1", ".", "0">>

\* The text with the leading zeros of every digit run removed.
LeadingZero(str, i) ==
    /\ str[i] = "0"
    /\ i < Len(str)
    /\ IsAsciiDigit(str[i + 1])
    /\ \A j \in 1..i : (\A k \in j..i : IsAsciiDigit(str[k])) => str[j] = "0"

RECURSIVE WithoutLeadingZerosFrom(_, _)
WithoutLeadingZerosFrom(str, i) ==
    IF i > Len(str) THEN <<>>
    ELSE IF LeadingZero(str, i) THEN WithoutLeadingZerosFrom(str, i + 1)
    ELSE <<str[i]>> \o WithoutLeadingZerosFrom(str, i + 1)

\* C7: rendering Version::parse_part(s), each element as its alpha run and
\* the decimal form of its numeric, gives s back but for the leading zeros of
\* its digit runs.
C7_PartRendersToItsText ==
    pc = "part_rendered" => text = WithoutLeadingZerosFrom(s, 1)

\* C8: Version::parse returns a ParseError only when the text has a ':' and
\* the text before the first ':' is no unsigned integer; every other text
\* succeeds.
C8_OnlyEpochErrors ==
    HasParsed =>
        LET c == EpochSeparator(s)
            bad == c # 0 /\ ~IsOk(U32FromStr(SubSeq(s, 1, c - 1)))
        IN  IF bad THEN parsed.status = "Err" ELSE parsed.status = "Ok"

(***************************************************************************)
(* Ordering: PartialOrd and Ord of VersionElement, VersionPart (the        *)
(* derived order of Vec: element by element, then by length) and Version.  *)
(***************************************************************************)
\* str::partial_cmp: lexicographic over the code points.
RECURSIVE StrCmp(_, _)
StrCmp(x, y) ==
    IF x = <<>> /\ y = <<>> THEN "Equal"
    ELSE IF x = <<>> THEN "Less"
    ELSE IF y = <<>> THEN "Greater"
    ELSE IF CharCode(Head(x)) < CharCode(Head(y)) THEN "Less"
    ELSE IF CharCode(Head(x)) > CharCode(Head(y)) THEN "Greater"
    ELSE StrCmp(Tail(x), Tail(y))

\* A slip: the alpha run is never compared (as in Ord::cmp).
ElementPartialCmpNumericOnly(x, y) == UCmp(x.numeric, y.numeric)

ElementPartialCmp(x, y) ==
    LET rv == UCmp(x.numeric, y.numeric)
    IN  IF rv = "Equal" THEN StrCmp(x.alpha, y.alpha) ELSE rv

\* Ord::cmp of VersionElement: asserts that both alpha runs are empty.
ElementCmp(x, y) ==
    IF x.alpha # <<>> THEN "Panic"
    ELSE IF y.alpha # <<>> THEN "Panic"
    ELSE UCmp(x.numeric, y.numeric)

NatCmp(m, n) == IF m < n THEN "Less" ELSE IF m > n THEN "Greater" ELSE "Equal"

\* PartPartialCmpFrom with the Debian rule that a '~' sorts before the end.
RECURSIVE PartPartialCmpFromTilde(_, _, _)
PartPartialCmpFromTilde(xs, ys, i) ==
    IF i > Len(xs) /\ i <= Len(ys) /\ ys[i].alpha # <<>> /\ Head(ys[i].alpha) = "~"
    THEN "Greater"
    ELSE IF i <= Len(xs) /\ i > Len(ys) /\ xs[i].alpha # <<>> /\ Head(xs[i].alpha) = "~"
    THEN "Less"
    ELSE IF i > Len(xs) \/ i > Len(ys) THEN NatCmp(Len(xs), Len(ys))
    ELSE LET o == ElementPartialCmp(xs[i], ys[i])
         IN  IF o = "Equal" THEN PartPartialCmpFromTilde(xs, ys, i + 1) ELSE o

RECURSIVE PartPartialCmpFrom(_, _, _)
PartPartialCmpFrom(xs, ys, i) ==
    IF i > Len(xs) \/ i > Len(ys) THEN NatCmp(Len(xs), Len(ys))
    ELSE LET o == ElementPartialCmp(xs[i], ys[i])
         IN  IF o = "Equal" THEN PartPartialCmpFrom(xs, ys, i + 1) ELSE o

PartPartialCmp(xs, ys) == PartPartialCmpFrom(xs, ys, 1)

RECURSIVE PartCmpFrom(_, _, _)
PartCmpFrom(xs, ys, i) ==
    IF i > Len(xs) \/ i > Len(ys) THEN NatCmp(Len(xs), Len(ys))
    ELSE LET o == ElementCmp(xs[i], ys[i])
         IN  IF o = "Equal" THEN PartCmpFrom(xs, ys, i + 1) ELSE o

PartCmp(xs, ys) == PartCmpFrom(xs, ys, 1)

\* A slip: the upstream version is compared before the epoch.
VersionPartialCmpUpstreamFirst(x, y) ==
    LET u == PartPartialCmp(x.upstream_version, y.upstream_version)
        e == UCmp(x.epoch, y.epoch)
    IN  IF u # "Equal" THEN u
        ELSE IF e # "Equal" THEN e
        ELSE PartPartialCmp(x.debian_revision, y.debian_revision)

VersionPartialCmp(x, y) ==
    LET e == UCmp(x.epoch, y.epoch)
        u == PartPartialCmp(x.upstream_version, y.upstream_version)
    IN  IF e # "Equal" THEN e
        ELSE IF u # "Equal" THEN u
        ELSE PartPartialCmp(x.debian_revision, y.debian_revision)

VersionCmp(x, y) ==
    LET e == UCmp(x.epoch, y.epoch)
        u == PartCmp(x.upstream_version, y.upstream_version)
    IN  IF e # "Equal" THEN e
        ELSE IF u # "Equal" THEN u
        ELSE PartCmp(x.debian_revision, y.debian_revision)

(***************************************************************************)
(* The ordering specification: a caller parses three texts and compares    *)
(* the versions with ==, the comparison operators and Ord::cmp.            *)
(***************************************************************************)
OrderChars == {"1", "2", "a"}

OrderTexts ==
    { <<"7", ":", "2", ".", "1", ".", "4", "-", "0", "~", "b", "p", "o", "2">>,
      <<"8", ":", "1", ".", "8", "-", "0", "~", "b", "p", "o", "2">>,
      <<"8", ":", "1", ".", "8", "-", "0", "~", "b", "p", "o", "1">>,
      <<"0", ":", "1", ".", "0">>,
      <<"1", ".", "0">>,
      <<"1", "~", "0">>,
      <<"1", ":", "1">>,
      <<"1", "-", "1">> }

OrderInputs == StringsUpTo(OrderChars, MaxOrdLen) \cup OrderTexts

InitOrder ==
    /\ overflow_checks \in BOOLEAN
    /\ pc = "start"
    /\ sa \in OrderInputs /\ sb \in OrderInputs /\ sc \in OrderInputs
    /\ va = Idle /\ vb = Idle /\ vc = Idle /\ ord = Idle
    /\ s = Idle /\ parsed = Idle /\ text = Idle /\ reparsed = Idle /\ part = Idle
    /\ dl = Idle /\ deps = Idle
    /\ dep = Idle /\ pos = 0 /\ scan = Idle /\ single = Idle
    /\ ControlIdle

ParseVersions ==
    /\ pc = "start"
    /\ va' = parse(sa, overflow_checks)
    /\ vb' = parse(sb, overflow_checks)
    /\ vc' = parse(sc, overflow_checks)
    /\ pc' = "parsed"
    /\ UNCHANGED <<ctlVars, scanVars, overflow_checks, s, parsed, text, reparsed, part,
                   sa, sb, sc, ord, dl, deps>>

Compare ==
    /\ pc = "parsed"
    /\ IsOk(va) /\ IsOk(vb) /\ IsOk(vc)
    /\ ord' = [ eq_ab |-> VersionEq(va.v, vb.v),
                partial_ab |-> VersionPartialCmp(va.v, vb.v),
                partial_ba |-> VersionPartialCmp(vb.v, va.v),
                partial_bc |-> VersionPartialCmp(vb.v, vc.v),
                partial_ac |-> VersionPartialCmp(va.v, vc.v),
                cmp_ab |-> VersionCmp(va.v, vb.v),
                part_ab |-> PartPartialCmp(va.v.upstream_version, vb.v.upstream_version) ]
    /\ pc' = "compared"
    /\ UNCHANGED <<ctlVars, scanVars, overflow_checks, s, parsed, text, reparsed, part,
                   sa, sb, sc, va, vb, vc, dl, deps>>

NextOrder == ParseVersions \/ Compare

SpecOrder == InitOrder /\ [][NextOrder]_vars

(***************************************************************************)
(* Claims about the ordering and the equality of versions.                 *)
(***************************************************************************)
\* C2: the comparison of two parsed versions is decided by the first
\* non-equal result of: epoch (numerically), upstream_version,
\* debian_revision; a smaller epoch is less whatever upstream and revision
\* are, and the revision counts only when epoch and upstream are equal.
C2_EpochThenUpstreamThenRevision ==
    pc = "compared" =>
        LET a == va.v
            b == vb.v
            e == UCmp(a.epoch, b.epoch)
            u == PartPartialCmp(a.upstream_version, b.upstream_version)
            r == PartPartialCmp(a.debian_revision, b.debian_revision)
        IN  /\ e # "Equal" => ord.partial_ab = e
            /\ (e = "Equal" /\ u # "Equal") => ord.partial_ab = u
            /\ (e = "Equal" /\ u = "Equal") => ord.partial_ab = r

C2_Witness ==
    /\ pc = "compared"
    /\ sa = <<"7", ":", "2", ".", "1", ".", "4", "-", "0", "~", "b", "p", "o", "2">>
    /\ sb = <<"8", ":", "1", ".", "8", "-", "0", "~", "b", "p", "o", "2">>
    /\ PartPartialCmp(va.v.upstream_version, vb.v.upstream_version) = "Greater"
    /\ ord.partial_ab = "Less"

\* C3: the ordering of parsed versions is a strict total order: exactly one
\* of a < b, a == b, a > b holds, and a < b and b < c imply a < c.
C3_StrictTotalOrder ==
    pc = "compared" =>
        LET lt == ord.partial_ab = "Less"
            gt == ord.partial_ab = "Greater"
            eq == ord.eq_ab
        IN  /\ lt \/ eq \/ gt
            /\ ~(lt /\ eq) /\ ~(lt /\ gt) /\ ~(eq /\ gt)
            /\ lt <=> (ord.partial_ba = "Greater")
            /\ (lt /\ ord.partial_bc = "Less") => ord.partial_ac = "Less"

C3_Witness ==
    /\ pc = "compared"
    /\ sa # sb /\ sb # sc
    /\ ord.partial_ab = "Less"
    /\ ord.partial_bc = "Less"
    /\ ord.partial_ac = "Less"
    /\ va.v.epoch = vb.v.epoch /\ vb.v.epoch # vc.v.epoch

\* C4: Ord::cmp on Version is defined for every pair of parsed versions and
\* returns the ordering of the comparison operators (partial_cmp).
C4_CmpAgreesWithPartialCmp ==
    pc = "compared" => (ord.cmp_ab # "Panic" /\ ord.cmp_ab = ord.partial_ab)

\* C9: two parsed versions are equal iff their epochs are equal and their
\* upstream_version and debian_revision element sequences are equal; an
\* explicit epoch 0 is the same as no epoch ("0:1.0" == "1.0").
C9_EqualityIsFieldwise ==
    pc = "compared" =>
        /\ ord.eq_ab <=> /\ va.v.epoch = vb.v.epoch
                         /\ va.v.upstream_version = vb.v.upstream_version
                         /\ va.v.debian_revision = vb.v.debian_revision
        /\ (PositionsOf(sb, ":") = {} /\ sa = <<"0", ":">> \o sb) => ord.eq_ab

C9_Witness ==
    /\ pc = "compared"
    /\ sa = <<"0", ":", "1", ".", "0">>
    /\ sb = <<"1", ".", "0">>
    /\ sa # sb
    /\ ord.eq_ab

(***************************************************************************)
(* parse_single_dep: the scanner over the characters of one dependency.    *)
(***************************************************************************)
RECURSIVE TrimStart(_)
TrimStart(str) ==
    IF str # <<>> /\ IsWhitespace(Head(str)) THEN TrimStart(Tail(str)) ELSE str

RECURSIVE TrimEnd(_)
TrimEnd(str) ==
    IF str # <<>> /\ IsWhitespace(str[Len(str)])
    THEN TrimEnd(SubSeq(str, 1, Len(str) - 1))
    ELSE str

\* str::trim
Trim(str) == TrimEnd(TrimStart(str))

BinaryVersion ==
    <<"$", "{", "b", "i", "n", "a", "r", "y", ":", "V", "e", "r", "s", "i", "o", "n", "}">>
SourceVersion ==
    <<"$", "{", "s", "o", "u", "r", "c", "e", ":", "V", "e", "r", "s", "i", "o", "n", "}">>

\* The scanner's locals when the loop starts.
ScanStart ==
    [ status |-> "Scanning", st |-> "PackageName",
      package |-> <<>>, version |-> None, arch |-> None, condition |-> None,
      vrel |-> <<>>, vdef |-> <<>>, arch_buf |-> <<>> ]

ScanErr(sd, msg) == [status |-> "Err", err |-> msg]

\* RelationOf reading the one-character tokens as the strict relations.
RelationOfLegacyStrict(vrel) ==
    IF vrel = <<">", "=">> THEN Some("GreaterOrEqual")
    ELSE IF vrel = <<">", ">">> \/ vrel = <<">">> THEN Some("Greater")
    ELSE IF vrel = <<"<", "=">> THEN Some("LesserOrEqual")
    ELSE IF vrel = <<"<", "<">> \/ vrel = <<"<">> THEN Some("Lesser")
    ELSE IF vrel = <<"=">> THEN Some("Equal")
    ELSE None

\* The relation of an accumulated token.
RelationOf(vrel) ==
    IF vrel = <<">", "=">> \/ vrel = <<">">> THEN Some("GreaterOrEqual")
    ELSE IF vrel = <<">", ">">> THEN Some("Greater")
    ELSE IF vrel = <<"<", "=">> \/ vrel = <<"<">> THEN Some("LesserOrEqual")
    ELSE IF vrel = <<"<", "<">> THEN Some("Lesser")
    ELSE IF vrel = <<"=">> THEN Some("Equal")
    ELSE None

\* CloseVersion without the test for the two placeholders.
CloseVersionNoPlaceholder(sd, checks) ==
    LET version == parse(Trim(sd.vdef), checks) IN
    IF version.status = "Panic" THEN Panic
    ELSE IF version.status = "Err" THEN ScanErr(sd, "error parsing version")
    ELSE IF RelationOf(sd.vrel) = None THEN ScanErr(sd, "invalid relation")
    ELSE [sd EXCEPT !.version = Some(<<RelationOf(sd.vrel)[1], version.v>>),
                    !.st = "PreArch"]

\* ')' in InVersionDef.
CloseVersion(sd, checks) ==
    IF Trim(sd.vdef) = BinaryVersion \/ Trim(sd.vdef) = SourceVersion THEN sd
    ELSE LET version == parse(Trim(sd.vdef), checks) IN
         IF version.status = "Panic" THEN Panic
         ELSE IF version.status = "Err" THEN ScanErr(sd, "error parsing version")
         ELSE IF RelationOf(sd.vrel) = None THEN ScanErr(sd, "invalid relation")
         ELSE [sd EXCEPT !.version = Some(<<RelationOf(sd.vrel)[1], version.v>>),
                         !.st = "PreArch"]

\* CloseArch storing the buffer as it was read.
CloseArchUntrimmed(sd) ==
    IF Trim(sd.arch_buf) # <<>>
    THEN [sd EXCEPT !.arch = Some(sd.arch_buf), !.st = "PreDependencyCondition"]
    ELSE ScanErr(sd, "empty arch given")

\* ']' in InArch.
CloseArch(sd) ==
    IF Trim(sd.arch_buf) # <<>>
    THEN [sd EXCEPT !.arch = Some(Trim(sd.arch_buf)), !.st = "PreDependencyCondition"]
    ELSE ScanErr(sd, "empty arch given")

\* The arms of the match on st, for the character ch.
ScanPackageName(sd, ch) ==
    IF IsWhitespace(ch) THEN [sd EXCEPT !.st = "PreVersion"]
    ELSE IF ch = "(" THEN [sd EXCEPT !.st = "InVersionRel"]
    ELSE [sd EXCEPT !.package = Append(@, ch)]

\* ScanPreVersion opening a condition without setting it to Some("").
ScanPreVersionNoCondition(sd, ch) ==
    IF IsWhitespace(ch) THEN sd
    ELSE IF ch = "(" THEN [sd EXCEPT !.st = "InVersionRel"]
    ELSE IF ch = "<" THEN [sd EXCEPT !.st = "InDependencyCondition"]
    ELSE IF ch = "[" THEN [sd EXCEPT !.st = "InArch"]
    ELSE ScanErr(sd, "garbage after package name")

ScanPreVersion(sd, ch) ==
    IF IsWhitespace(ch) THEN sd
    ELSE IF ch = "(" THEN [sd EXCEPT !.st = "InVersionRel"]
    ELSE IF ch = "<" THEN
        [sd EXCEPT !.st = "InDependencyCondition", !.condition = Some(<<>>)]
    ELSE IF ch = "[" THEN [sd EXCEPT !.st = "InArch"]
    ELSE ScanErr(sd, "garbage after package name")

ScanInVersionRel(sd, ch) ==
    IF ch \in {">", "<", "="} THEN [sd EXCEPT !.vrel = Append(@, ch)]
    ELSE IF ch = ")" THEN ScanErr(sd, "no version given")
    ELSE [sd EXCEPT !.st = "InVersionDef", !.vdef = Append(@, ch)]

ScanInVersionDef(sd, ch, checks) ==
    IF ch = ")" THEN CloseVersion(sd, checks)
    ELSE [sd EXCEPT !.vdef = Append(@, ch)]

ScanPreArch(sd, ch) ==
    IF IsWhitespace(ch) THEN sd
    ELSE IF ch = "[" THEN [sd EXCEPT !.st = "InArch"]
    ELSE ScanErr(sd, "garbage after version")

ScanInArch(sd, ch) ==
    IF ch = "]" THEN CloseArch(sd)
    ELSE [sd EXCEPT !.arch_buf = Append(@, ch)]

\* ScanInDependencyCondition looking for an architecture after the condition.
ScanInDependencyConditionThenArch(sd, ch) ==
    IF ch = ">" THEN [sd EXCEPT !.st = "PreArch"]
    ELSE IF sd.condition = None THEN Panic
    ELSE [sd EXCEPT !.condition = Some(Append(@[1], ch))]

ScanInDependencyCondition(sd, ch) ==
    IF ch = ">" THEN [sd EXCEPT !.st = "Done"]
    ELSE IF sd.condition = None THEN Panic
    ELSE [sd EXCEPT !.condition = Some(Append(@[1], ch))]

\* ScanPreDependencyCondition refusing a character that opens no condition.
ScanPreDependencyConditionStrict(sd, ch) ==
    IF IsWhitespace(ch) THEN sd
    ELSE IF ch = "<" THEN
        [sd EXCEPT !.st = "InDependencyCondition", !.condition = Some(<<>>)]
    ELSE ScanErr(sd, "garbage after arch")

ScanPreDependencyCondition(sd, ch) ==
    IF IsWhitespace(ch) THEN sd
    ELSE IF ch = "<" THEN
        [sd EXCEPT !.st = "InDependencyCondition", !.condition = Some(<<>>)]
    ELSE [sd EXCEPT !.st = "Done"]

\* ScanDone ignoring whatever follows.
ScanDoneLenient(sd, ch) == sd

ScanDone(sd, ch) ==
    IF IsWhitespace(ch) THEN sd
    ELSE ScanErr(sd, "garbage after arch")

\* One turn of the loop: the scanner sd reads the character ch.
ScanChar(sd, ch, checks) ==
    CASE sd.st = "PackageName" -> ScanPackageName(sd, ch)
      [] sd.st = "PreVersion" -> ScanPreVersion(sd, ch)
      [] sd.st = "InVersionRel" -> ScanInVersionRel(sd, ch)
      [] sd.st = "InVersionDef" -> ScanInVersionDef(sd, ch, checks)
      [] sd.st = "PreArch" -> ScanPreArch(sd, ch)
      [] sd.st = "InArch" -> ScanInArch(sd, ch)
      [] sd.st = "InDependencyCondition" -> ScanInDependencyCondition(sd, ch)
      [] sd.st = "PreDependencyCondition" -> ScanPreDependencyCondition(sd, ch)
      [] sd.st = "Done" -> ScanDone(sd, ch)

RECURSIVE ScanFrom(_, _, _, _)
ScanFrom(sd, str, i, checks) ==
    IF sd.status # "Scanning" THEN sd
    ELSE IF i > Len(str) THEN sd
    ELSE ScanFrom(ScanChar(sd, str[i], checks), str, i + 1, checks)

SingleDependency(sd) ==
    [package |-> sd.package, version |-> sd.version,
     arch |-> sd.arch, condition |-> sd.condition]

\* DisplayVRel writing the one-character tokens.
DisplayVRelShort(vrel) ==
    CASE vrel = "GreaterOrEqual" -> <<">">>
      [] vrel = "Greater" -> <<">", ">">>
      [] vrel = "LesserOrEqual" -> <<"<">>
      [] vrel = "Lesser" -> <<"<", "<">>
      [] vrel = "Equal" -> <<"=">>

DisplayVRel(vrel) ==
    CASE vrel = "GreaterOrEqual" -> <<">", "=">>
      [] vrel = "Greater" -> <<">", ">">>
      [] vrel = "LesserOrEqual" -> <<"<", "=">>
      [] vrel = "Lesser" -> <<"<", "<">>
      [] vrel = "Equal" -> <<"=">>

DisplaySingleDependency(d) ==
    IF d.version = None /\ d.arch = None THEN d.package
    ELSE IF d.arch = None THEN
        d.package \o <<" ", "(">> \o DisplayVRel(d.version[1][1]) \o <<" ">>
            \o DisplayVersion(d.version[1][2]) \o <<")">>
    ELSE IF d.version = None THEN
        d.package \o <<" ", "[">> \o d.arch[1] \o <<"]">>
    ELSE
        d.package \o <<" ", "(">> \o DisplayVRel(d.version[1][1]) \o <<" ">>
            \o DisplayVersion(d.version[1][2]) \o <<")">>
            \o <<" ", "[">> \o d.arch[1] \o <<"]">>

\* [String]::join
RECURSIVE Join(_, _)
Join(strs, sep) ==
    IF strs = <<>> THEN <<>>
    ELSE IF Len(strs) = 1 THEN strs[1]
    ELSE strs[1] \o sep \o Join(Tail(strs), sep)

DisplayDependency(d) ==
    Join([i \in 1..Len(d.alternatives) |-> DisplaySingleDependency(d.alternatives[i])],
         <<" ", "|", " ">>)

parse_single_dep(str, checks) ==
    LET sd == ScanFrom(ScanStart, str, 1, checks)
    IN  IF sd.status = "Scanning" THEN Ok(SingleDependency(sd)) ELSE sd

(***************************************************************************)
(* parse_dep_list                                                          *)
(***************************************************************************)
\* str::split on one character: the pieces between its occurrences.
RECURSIVE Split(_, _)
Split(str, sep) ==
    LET p == Find(str, sep)
    IN  IF p = 0 THEN <<str>>
        ELSE <<SubSeq(str, 1, p - 1)>> \o Split(SubSeq(str, p + 1, Len(str)), sep)

TrimAll(pieces) == [i \in 1..Len(pieces) |-> Trim(pieces[i])]

\* A slip: a group is not split into its alternatives.
WholeGroup(group) == <<Trim(group)>>

\* The trimmed '|'-separated pieces of one group.
AlternativesOf(group) == TrimAll(Split(group, "|"))

\* The inner loop: the alternatives of one group, stopped by the first failure.
RECURSIVE ParseAlternatives(_, _, _, _)
ParseAlternatives(pieces, i, a, checks) ==
    IF i > Len(pieces) THEN Ok([alternatives |-> a])
    ELSE LET sd == parse_single_dep(pieces[i], checks)
         IN  IF IsOk(sd) THEN ParseAlternatives(pieces, i + 1, Append(a, sd.v), checks)
             ELSE sd

\* ParseGroups leaving out a group that fails and going on.
RECURSIVE ParseGroupsSkipFailed(_, _, _, _)
ParseGroupsSkipFailed(groups, i, result, checks) ==
    IF i > Len(groups) THEN Ok(result)
    ELSE LET d == ParseAlternatives(AlternativesOf(groups[i]), 1, <<>>, checks)
         IN  IF IsOk(d)
             THEN ParseGroupsSkipFailed(groups, i + 1, Append(result, d.v), checks)
             ELSE ParseGroupsSkipFailed(groups, i + 1, result, checks)

\* The outer loop: the groups, stopped by the first failure.
RECURSIVE ParseGroups(_, _, _, _)
ParseGroups(groups, i, result, checks) ==
    IF i > Len(groups) THEN Ok(result)
    ELSE LET d == ParseAlternatives(AlternativesOf(groups[i]), 1, <<>>, checks)
         IN  IF IsOk(d) THEN ParseGroups(groups, i + 1, Append(result, d.v), checks)
             ELSE d

parse_dep_list(str, checks) ==
    ParseGroups(TrimAll(Split(str, ",")), 1, <<>>, checks)

(***************************************************************************)
(* The dependency-list specification: a caller parses one field text.      *)
(***************************************************************************)
DepChars == {"a", " ", ",", "|"}

DepListExample ==
    <<"f", "o", "o", " ", "(", ">", "=", " ", "3", ".", "2", ")", " ", "|", " ",
      "b", "a", "r", ",", " ", "b", "a", "z", " ", "(", ">", "=", " ", "1", ")">>

TwoFailures == <<"a", ",", " ", "b", " ", "[", " ", "]", " ", "|", " ", "c", " ", "(", "1", ")">>
FailureInFirstGroup == <<"a", " ", "(", "1", ")", ",", " ", "b", " ", "[", " ", "]">>
LegacyRelations == <<"a", " ", "(", ">", " ", "1", ")", " ", "[", "b", "]", " ", "<", "c", ">", " ", "|", " ", "d", " ", "(", "<", " ", "1", ":", "2", "-", "3", ")", ",", " ", "e">>

DepTexts ==
    { DepListExample, TwoFailures, FailureInFirstGroup, LegacyRelations,
      <<"a", " ", "(", "=", " ", "1", ")", " ", "[", "b", "]", " ", "<", "c", ">",
        ",", "d", "|", "e">>,
      <<"a", " ", "(", "1", ")", ",", "b">>,
      <<"a", "|", "b", " ", "(", ">", ">", " ", "a", ":", "1", ")">> }

DepListInputs == StringsUpTo(DepChars, MaxDepLen) \cup DepTexts

InitDepList ==
    /\ overflow_checks \in BOOLEAN
    /\ pc = "start"
    /\ dl \in DepListInputs
    /\ deps = Idle
    /\ s = Idle /\ parsed = Idle /\ text = Idle /\ reparsed = Idle /\ part = Idle
    /\ sa = Idle /\ sb = Idle /\ sc = Idle
    /\ va = Idle /\ vb = Idle /\ vc = Idle /\ ord = Idle
    /\ dep = Idle /\ pos = 0 /\ scan = Idle /\ single = Idle
    /\ ControlIdle

ParseDepList ==
    /\ pc = "start"
    /\ deps' = parse_dep_list(dl, overflow_checks)
    /\ pc' = "dep_list_parsed"
    /\ UNCHANGED <<ctlVars, scanVars, overflow_checks, s, parsed, text, reparsed, part,
                   sa, sb, sc, va, vb, vc, ord, dl>>

\* The caller writes every Dependency of the parsed list.
DisplayDeps ==
    /\ pc = "dep_list_parsed"
    /\ IsOk(deps)
    /\ text' = [g \in 1..Len(deps.v) |-> DisplayDependency(deps.v[g])]
    /\ pc' = "dep_list_rendered"
    /\ UNCHANGED <<ctlVars, scanVars, overflow_checks, s, parsed, reparsed, part,
                   sa, sb, sc, va, vb, vc, ord, dl, deps>>

NextDepList == ParseDepList \/ DisplayDeps

SpecDepList == InitDepList /\ [][NextDepList]_vars

(***************************************************************************)
(* Claims about parse_dep_list.                                            *)
(***************************************************************************)
\* The k-th smallest element of a set of positions.
KthOf(S, k) == CHOOSE p \in S : Cardinality({q \in S : q < p}) = k - 1

\* The k-th of the pieces that the occurrences of sep cut str into.
PieceOf(str, sep, k) ==
    LET at == PositionsOf(str, sep)
        from == IF k = 1 THEN 1 ELSE KthOf(at, k - 1) + 1
        to == IF k = Cardinality(at) + 1 THEN Len(str) ELSE KthOf(at, k) - 1
    IN  SubSeq(str, from, to)

PieceCount(str, sep) == Cardinality(PositionsOf(str, sep)) + 1

\* C10: on success parse_dep_list returns one Dependency per comma-separated
\* segment, in input order, whose alternatives are the parse_single_dep
\* results of the segment's trimmed '|'-separated pieces, in input order;
\* "foo (>= 3.2) | bar, baz (>= 1)" gives two groups of 2 and 1 alternatives.
C10_GroupsAndAlternativesInOrder ==
    (pc = "dep_list_parsed" /\ IsOk(deps)) =>
        /\ Len(deps.v) = PieceCount(dl, ",")
        /\ \A g \in 1..Len(deps.v) :
              LET group == Trim(PieceOf(dl, ",", g))
                  alts == deps.v[g].alternatives
              IN  /\ Len(alts) = PieceCount(group, "|")
                  /\ \A k \in 1..Len(alts) :
                        Ok(alts[k]) =
                            parse_single_dep(Trim(PieceOf(group, "|", k)), overflow_checks)
        /\ dl = DepListExample =>
              /\ Len(deps.v) = 2
              /\ Len(deps.v[1].alternatives) = 2
              /\ Len(deps.v[2].alternatives) = 1
              /\ deps.v[1].alternatives[1].package = <<"f", "o", "o">>
              /\ deps.v[1].alternatives[2].package = <<"b", "a", "r">>
              /\ deps.v[2].alternatives[1].package = <<"b", "a", "z">>

C10_Witness ==
    /\ pc = "dep_list_parsed"
    /\ dl = DepListExample
    /\ IsOk(deps)
    /\ Len(deps.v) = 2
    /\ deps.v[1].alternatives[1].version =
           Some(<<"GreaterOrEqual",
                  Version(Zero, <<VersionElement(<<>>, UInt(3)),
                                  VersionElement(<<".">>, UInt(2))>>, <<>>)>>)
    /\ deps.v[1].alternatives[2].version = None
    /\ deps.v[2].alternatives[1].version =
           Some(<<"GreaterOrEqual",
                  Version(Zero, <<VersionElement(<<>>, UInt(1))>>, <<>>)>>)

(***************************************************************************)
(* The scanner specification: parse_single_dep reads one dependency text   *)
(* character by character and returns.                                     *)
(***************************************************************************)
ScanChars == {"p", " ", "(", ")", "[", "]", "<", ">", "=", "1"}

\* The concatenation of one piece of each set, in order.
Joined(A, B) == {a \o b : a \in A, b \in B}

ScanSeparators == { <<>>, <<" ">> }

ScanVersionClauses ==
    { <<>>,
      <<"(", ">", "=", " ", "1", ")">>,
      <<"(", ">", " ", "1", ")">>,
      <<"(", ">", ">", " ", "1", ")">>,
      <<"(", "<", "=", " ", "1", ")">>,
      <<"(", "<", " ", "1", ")">>,
      <<"(", "<", "<", " ", "1", ")">>,
      <<"(", "=", " ", "1", ")">>,
      <<"(", "1", ")">>,
      <<"(", "=", ">", " ", "1", ")">>,
      <<"(", ">", "=", ")">>,
      <<"(", ">", "=", " ", ")">>,
      <<"(", ")">>,
      <<"(", "=", " ", "a", ":", "1", ")">>,
      <<"(", "=", " ", "0", ":", "1", ":", "2", ")">>,
      <<"(", "=", " ", "1">>,
      <<"(", "=", " ">> \o BinaryVersion \o <<")">>,
      <<"(", ">", "=", " ">> \o SourceVersion \o <<" ", ")">>,
      BinaryVersion \o <<")">>,
      <<"(">> \o BinaryVersion \o <<")">>,
      <<"(", "=", "<", " ">> \o SourceVersion \o <<")">> }

ScanArchClauses ==
    { <<>>, <<" ", "[", "a", "]">>, <<" ", "[", " ", "a", " ", "]">>,
      <<" ", "[", " ", "]">>, <<" ", "[", "a">> }

ScanConditionClauses ==
    { <<>>, <<" ", "<", "c", ">">>, <<" ", "<", "!", "c">> }

ScanTails == { <<>>, <<" ">>, <<" ", "x">>, <<" ", "x", "y">>, <<")", "g">> }

ScanTexts ==
    Joined(Joined(Joined(Joined(Joined({<<"p">>}, ScanSeparators),
        ScanVersionClauses), ScanArchClauses), ScanConditionClauses), ScanTails)

PkgGarbage == <<"p", "k", "g", " ", ")", "g", "a", "r", "b", "a", "g", "e">>

ScanInputs == StringsUpTo(ScanChars, MaxScanLen) \cup ScanTexts \cup {PkgGarbage}

InitScan ==
    /\ overflow_checks \in BOOLEAN
    /\ pc = "scanning"
    /\ dep \in ScanInputs
    /\ pos = 0
    /\ scan = ScanStart
    /\ single = Idle
    /\ ControlIdle
    /\ s = Idle /\ parsed = Idle /\ text = Idle /\ reparsed = Idle /\ part = Idle
    /\ sa = Idle /\ sb = Idle /\ sc = Idle
    /\ va = Idle /\ vb = Idle /\ vc = Idle /\ ord = Idle
    /\ dl = Idle /\ deps = Idle

\* One turn of the loop over s.chars().
ScanStep ==
    /\ pc = "scanning"
    /\ scan.status = "Scanning"
    /\ pos < Len(dep)
    /\ scan' = ScanChar(scan, dep[pos + 1], overflow_checks)
    /\ pos' = pos + 1
    /\ UNCHANGED <<ctlVars, overflow_checks, pc, s, parsed, text, reparsed, part,
                   sa, sb, sc, va, vb, vc, ord, dl, deps, dep, single>>

\* ScanReturn refusing a text that ends inside a clause.
ScanReturnStrict ==
    /\ pc = "scanning"
    /\ scan.status # "Scanning" \/ pos = Len(dep)
    /\ single' = IF scan.status # "Scanning" THEN scan
                  ELSE IF scan.st \in {"InVersionRel", "InVersionDef", "InArch",
                                       "InDependencyCondition"}
                  THEN ScanErr(scan, "unclosed clause")
                  ELSE Ok(SingleDependency(scan))
    /\ pc' = "returned"
    /\ UNCHANGED <<ctlVars, overflow_checks, s, parsed, text, reparsed, part,
                   sa, sb, sc, va, vb, vc, ord, dl, deps, dep, pos, scan>>

\* The return: an early Err (or a panic), or Ok(result) at the end of the text.
ScanReturn ==
    /\ pc = "scanning"
    /\ scan.status # "Scanning" \/ pos = Len(dep)
    /\ single' = IF scan.status = "Scanning" THEN Ok(SingleDependency(scan)) ELSE scan
    /\ pc' = "returned"
    /\ UNCHANGED <<ctlVars, overflow_checks, s, parsed, text, reparsed, part,
                   sa, sb, sc, va, vb, vc, ord, dl, deps, dep, pos, scan>>

\* The caller writes the dependency it got.
DisplaySingle ==
    /\ pc = "returned"
    /\ IsOk(single)
    /\ text' = DisplaySingleDependency(single.v)
    /\ pc' = "single_rendered"
    /\ UNCHANGED <<ctlVars, scanVars, overflow_checks, s, parsed, reparsed, part,
                   sa, sb, sc, va, vb, vc, ord, dl, deps>>

\* The caller parses the text it wrote.
ReparseSingle ==
    /\ pc = "single_rendered"
    /\ reparsed' = parse_single_dep(text, overflow_checks)
    /\ pc' = "single_reparsed"
    /\ UNCHANGED <<ctlVars, scanVars, overflow_checks, s, parsed, text, part,
                   sa, sb, sc, va, vb, vc, ord, dl, deps>>

NextScan == ScanStep \/ ScanReturn \/ DisplaySingle \/ ReparseSingle

SpecScan == InitScan /\ [][NextScan]_vars

(***************************************************************************)
(* The clauses of the text dep, read off the text itself: the package name *)
(* runs to the first whitespace or '(', then come the clauses              *)
(* '(' relation version ')', '[' arch ']' and '<' condition '>', each      *)
(* after optional whitespace.  A position of 0 says "not there".           *)
(***************************************************************************)
NextNonWs(str, from) ==
    LET S == {i \in from..Len(str) : ~IsWhitespace(str[i])}
    IN  IF S = {} THEN Len(str) + 1 ELSE SetMin(S)

FirstAt(str, c, from) ==
    LET S == {i \in from..Len(str) : str[i] = c}
    IN  IF S = {} THEN 0 ELSE SetMin(S)

OpensWith(c, from) ==
    LET n == NextNonWs(dep, from)
    IN  IF n <= Len(dep) /\ dep[n] = c THEN n ELSE 0

PackageEnd ==
    LET S == {i \in 1..Len(dep) : IsWhitespace(dep[i]) \/ dep[i] = "("}
    IN  IF S = {} THEN Len(dep) ELSE SetMin(S) - 1

VersionOpen == OpensWith("(", PackageEnd + 1)
VersionClose == IF VersionOpen = 0 THEN 0 ELSE FirstAt(dep, ")", VersionOpen)
HasVersionClause == VersionOpen # 0 /\ VersionClose # 0

RelationEnd ==
    SetMin({i \in VersionOpen + 1..Len(dep) : dep[i] \notin {">", "<", "="}}) - 1
ClauseRelation == SubSeq(dep, VersionOpen + 1, RelationEnd)
ClauseVersion == SubSeq(dep, RelationEnd + 1, VersionClose - 1)
IsPlaceholder ==
    HasVersionClause /\ Trim(ClauseVersion) \in {BinaryVersion, SourceVersion}

AfterVersion == IF VersionOpen = 0 THEN PackageEnd + 1 ELSE VersionClose + 1
ArchOpen ==
    IF VersionOpen # 0 /\ VersionClose = 0 THEN 0 ELSE OpensWith("[", AfterVersion)
ArchClose == IF ArchOpen = 0 THEN 0 ELSE FirstAt(dep, "]", ArchOpen)
ArchText == SubSeq(dep, ArchOpen + 1, ArchClose - 1)

AfterArch == IF ArchOpen = 0 THEN AfterVersion ELSE ArchClose + 1
ConditionOpen ==
    IF (VersionOpen # 0 /\ VersionClose = 0) \/ (ArchOpen # 0 /\ ArchClose = 0)
    THEN 0 ELSE OpensWith("<", AfterArch)
ConditionClose == IF ConditionOpen = 0 THEN 0 ELSE FirstAt(dep, ">", ConditionOpen)
ConditionText == SubSeq(dep, ConditionOpen + 1, ConditionClose - 1)

ClausesEnd ==
    IF ConditionOpen # 0 THEN ConditionClose
    ELSE IF ArchOpen # 0 THEN ArchClose
    ELSE IF VersionOpen # 0 THEN VersionClose
    ELSE PackageEnd

\* dep follows the grammar: every clause that opens also closes, the
\* architecture is not blank, and only whitespace follows the last clause.
WellFormed ==
    /\ VersionOpen # 0 => VersionClose # 0
    /\ ArchOpen # 0 => ArchClose # 0 /\ Trim(ArchText) # <<>>
    /\ ConditionOpen # 0 => ConditionClose # 0
    /\ \A i \in ClausesEnd + 1..Len(dep) : IsWhitespace(dep[i])

ExpectedArch == IF ArchOpen # 0 THEN Some(Trim(ArchText)) ELSE None
ExpectedCondition == IF ConditionOpen # 0 THEN Some(ConditionText) ELSE None

\* The relation named by a token of the version clause.
VRelOfToken(token) ==
    CASE token = <<">", "=">> -> "GreaterOrEqual"
      [] token = <<">">> -> "GreaterOrEqual"
      [] token = <<">", ">">> -> "Greater"
      [] token = <<"<", "=">> -> "LesserOrEqual"
      [] token = <<"<">> -> "LesserOrEqual"
      [] token = <<"<", "<">> -> "Lesser"
      [] token = <<"=">> -> "Equal"
      [] OTHER -> "invalid"

ClauseVersionParsed == parse(Trim(ClauseVersion), overflow_checks)

\* The version clause is an ordinary one: a relation, and a version text
\* that is not blank, not a placeholder, and parses.
OrdinaryVersionClause ==
    /\ HasVersionClause
    /\ ~IsPlaceholder
    /\ Trim(ClauseVersion) # <<>>
    /\ ClauseVersionParsed.status = "Ok"

C12_ScanningContinuesAfterPlaceholder ==
    (pc = "returned" /\ WellFormed /\ IsPlaceholder) =>
        /\ IsOk(single)
        /\ single.v.version = None
        /\ single.v.arch = ExpectedArch
        /\ single.v.condition = ExpectedCondition

\* C13: with a version clause, the architecture clause and the condition
\* clause are each optional on their own: every well-formed text with an
\* ordinary version clause parses, to that version, that architecture (or
\* None) and that condition (or None); so does 'pkg (relop version) <c>'.
C13_ClausesIndependentlyOptional ==
    (pc = "returned" /\ WellFormed /\ OrdinaryVersionClause
        /\ VRelOfToken(ClauseRelation) # "invalid") =>
        /\ IsOk(single)
        /\ single.v.version =
              Some(<<VRelOfToken(ClauseRelation), ClauseVersionParsed.v>>)
        /\ single.v.arch = ExpectedArch
        /\ single.v.condition = ExpectedCondition

\* C14: without a version clause, 'pkg [A] <C>' gives arch = Some(A trimmed)
\* and condition = Some(C), C being the raw text between '<' and the first
\* '>' after it; 'pkg <C>' gives condition = Some(C) and arch = None.
C14_ArchAndCondition ==
    (pc = "returned" /\ WellFormed /\ VersionOpen = 0 /\ ConditionOpen # 0) =>
        /\ IsOk(single)
        /\ single.v.version = None
        /\ single.v.arch = ExpectedArch
        /\ single.v.condition = Some(ConditionText)

C14_Witness ==
    /\ pc = "returned"
    /\ dep = <<"p", " ", "[", " ", "a", " ", "]", " ", "<", "c", ">">>
    /\ IsOk(single)
    /\ single.v.arch = Some(<<"a">>)
    /\ single.v.condition = Some(<<"c">>)

\* C15: when the version clause closes on a version text that parses, the
\* relation token '>=' or '>' is stored as GreaterOrEqual, '>>' as Greater,
\* '<=' or '<' as LesserOrEqual, '<<' as Lesser, '=' as Equal; every other
\* token, the empty one included, ends the scan with "invalid relation".
C15_RelationMapping ==
    (pc = "scanning" /\ OrdinaryVersionClause /\ pos = VersionClose) =>
        IF VRelOfToken(ClauseRelation) # "invalid"
        THEN /\ scan.status = "Scanning"
             /\ scan.version =
                   Some(<<VRelOfToken(ClauseRelation), ClauseVersionParsed.v>>)
        ELSE /\ scan.status = "Err"
             /\ scan.err = "invalid relation"

C15_Witness ==
    /\ pc = "scanning"
    /\ OrdinaryVersionClause
    /\ pos = VersionClose
    /\ ClauseRelation = <<">">>
    /\ scan.status = "Scanning"
    /\ scan.version = Some(<<"GreaterOrEqual", ClauseVersionParsed.v>>)

\* C16: a version clause with no version, the text after the relation token
\* being blank as in '(>=)' or '(>= )', ends the scan at its ')' with
\* "no version given", and that is the error returned.
C16_BlankVersionRejected ==
    (HasVersionClause /\ Trim(ClauseVersion) = <<>>) =>
        /\ (pc = "scanning" /\ pos = VersionClose)
              => (scan.status = "Err" /\ scan.err = "no version given")
        /\ pc = "returned"
              => (single.status = "Err" /\ single.err = "no version given")

\* C17: a character that a state does not accept ends the scan there with
\* that state's error: in PreVersion anything but whitespace, '(', '<', '['
\* gives "garbage after package name"; in PreArch anything but whitespace or
\* '[' gives "garbage after version"; in Done anything but whitespace gives
\* "garbage after arch".  After an error no further character is read and
\* the error is what is returned; 'pkg )garbage' returns an error.
C17_GarbageStopsTheScan ==
    [][ /\ (pc = "scanning" /\ pos' = pos + 1) =>
            LET ch == dep[pos + 1]
                Fails(msg) == scan'.status = "Err" /\ scan'.err = msg
            IN  /\ scan.st = "PreVersion" =>
                      (Fails("garbage after package name")
                          <=> ~(IsWhitespace(ch) \/ ch \in {"(", "<", "["}))
                /\ scan.st = "PreArch" =>
                      (Fails("garbage after version")
                          <=> ~(IsWhitespace(ch) \/ ch = "["))
                /\ scan.st = "Done" =>
                      (Fails("garbage after arch") <=> ~IsWhitespace(ch))
        /\ (pc = "scanning" /\ scan.status = "Err") =>
              (pos' = pos /\ pc' = "returned" /\ single' = scan)
        /\ (pc = "scanning" /\ pc' = "returned" /\ dep = PkgGarbage) =>
              single'.status = "Err"
      ]_vars

C17_Witness ==
    /\ pc = "returned"
    /\ dep = PkgGarbage
    /\ pos = 5
    /\ single.status = "Err"
    /\ single.err = "garbage after package name"

(***************************************************************************)
(* Claims about the failure of parse_dep_list and about rendering.         *)
(***************************************************************************)
\* The k-th alternative text of the g-th group of the list text dl.
AlternativeText(g, k) == Trim(PieceOf(Trim(PieceOf(dl, ",", g)), "|", k))

AlternativePlaces ==
    {p \in (1..PieceCount(dl, ",")) \X (1..Len(dl) + 1) :
        p[2] <= PieceCount(Trim(PieceOf(dl, ",", p[1])), "|")}

ComesBefore(p, q) == p[1] < q[1] \/ (p[1] = q[1] /\ p[2] < q[2])

FailingPlaces ==
    {p \in AlternativePlaces :
        ~IsOk(parse_single_dep(AlternativeText(p[1], p[2]), overflow_checks))}

\* C18: when parse_single_dep fails on some alternative, parse_dep_list
\* returns the error of the first failing alternative in input order, and
\* nothing of the groups parsed before it.
C18_FirstErrorAbortsTheList ==
    (pc \in {"dep_list_parsed", "dep_list_rendered"} /\ FailingPlaces # {}) =>
        \E p \in FailingPlaces :
            /\ \A q \in FailingPlaces : q = p \/ ComesBefore(p, q)
            /\ deps.status = "Err"
            /\ deps = parse_single_dep(AlternativeText(p[1], p[2]), overflow_checks)
            /\ DOMAIN deps = {"status", "err"}

C18_Witness ==
    /\ pc = "dep_list_parsed"
    /\ dl = TwoFailures
    /\ Cardinality(FailingPlaces) = 2
    /\ deps.status = "Err"
    /\ deps.err = "empty arch given"

\* The canonical token of a relation.
CanonicalToken(vrel) ==
    CASE vrel = "GreaterOrEqual" -> <<">", "=">>
      [] vrel = "Greater" -> <<">", ">">>
      [] vrel = "LesserOrEqual" -> <<"<", "=">>
      [] vrel = "Lesser" -> <<"<", "<">>
      [] vrel = "Equal" -> <<"=">>

\* 'package', then ' (REL version)' if there is a version, then ' [arch]'
\* if there is an architecture; nothing for the condition.
ExpectedSingleText(d) ==
    d.package
        \o (IF d.version # None
            THEN <<" ", "(">> \o CanonicalToken(d.version[1][1]) \o <<" ">>
                     \o DisplayVersion(d.version[1][2]) \o <<")">>
            ELSE <<>>)
        \o (IF d.arch # None THEN <<" ", "[">> \o d.arch[1] \o <<"]">> ELSE <<>>)

RECURSIVE ExpectedGroupText(_, _)
ExpectedGroupText(alts, k) ==
    IF k > Len(alts) THEN <<>>
    ELSE (IF k > 1 THEN <<" ", "|", " ">> ELSE <<>>)
             \o ExpectedSingleText(alts[k]) \o ExpectedGroupText(alts, k + 1)

\* C19: a SingleDependency is written as its package, ' (REL version)' only
\* with a version and ' [arch]' only with an architecture, REL being the
\* canonical token, so that a relation read as '>' or '<' is written '>=' or
\* '<='; the condition is not written; a Dependency is its alternatives in
\* order joined by ' | '.
C19_DependencyRendering ==
    pc = "dep_list_rendered" =>
        /\ Len(text) = Len(deps.v)
        /\ \A g \in 1..Len(text) :
              text[g] = ExpectedGroupText(deps.v[g].alternatives, 1)
        /\ dl = LegacyRelations =>
              text = << <<"a", " ", "(", ">", "=", " ", "1", ")", " ", "[", "b", "]", " ", "|", " ", "d", " ", "(", "<", "=", " ", "1", ":", "2", "-", "3", ")">>,
                        <<"e">> >>

C19_Witness ==
    /\ pc = "dep_list_rendered"
    /\ dl = LegacyRelations
    /\ deps.v[1].alternatives[1].condition = Some(<<"c">>)
    /\ deps.v[1].alternatives[1].version[1][1] = "GreaterOrEqual"
    /\ Len(text) = 2
    /\ text[2] = <<"e">>

(***************************************************************************)
(* Claims about the numbers of a version.                                  *)
(***************************************************************************)
\* The positions where a run of digits starts, and the run starting there.
DigitRunStarts(str) ==
    {i \in 1..Len(str) :
        IsAsciiDigit(str[i]) /\ (i = 1 \/ ~IsAsciiDigit(str[i - 1]))}

DigitRunAt(str, i) ==
    SubSeq(str, i, SetMax({j \in i..Len(str) : \A k \in i..j : IsAsciiDigit(str[k])}))

\* The decimal numeral of the value of a run of digits.
RECURSIVE NumeralOf(_)
NumeralOf(run) ==
    IF Len(run) > 1 /\ Head(run) = "0" THEN NumeralOf(Tail(run)) ELSE run

\* The k-th element holds the value of the k-th run of digits; an element
\* after the last run holds 0.
NumericsAreExact(str, elements) ==
    \A k \in 1..Len(elements) :
        IF k <= Cardinality(DigitRunStarts(str))
        THEN Decimal(elements[k].numeric) =
                 NumeralOf(DigitRunAt(str, KthOf(DigitRunStarts(str), k)))
        ELSE elements[k].numeric = Zero

\* C20: Version::parse and Version::parse_part do not panic, whatever the
\* text: they return Ok or Err; and in an Ok result every element's numeric
\* is the full decimal value of its run of digits, also beyond 2^64 - 1.
C20_NoPanicNoWrap ==
    /\ HasParsed =>
          /\ parsed.status \in {"Ok", "Err"}
          /\ (IsOk(parsed) /\ EpochSeparator(s) = 0 /\ PositionsOf(s, "-") = {})
                => NumericsAreExact(s, parsed.v.upstream_version)
    /\ pc \in {"part_parsed", "part_rendered"} =>
          /\ part.status = "Ok"
          /\ NumericsAreExact(s, part.v)

(***************************************************************************)
(* control.rs: ControlValue, ControlEntry, ControlParagraph.               *)
(***************************************************************************)
SimpleKeys ==
    { <<"A", "r", "c", "h", "i", "t", "e", "c", "t", "u", "r", "e">>,
      <<"B", "u", "i", "l", "t", "-", "U", "s", "i", "n", "g">>,
      <<"C", "h", "a", "n", "g", "e", "d", "-", "B", "y">>,
      <<"E", "s", "s", "e", "n", "t", "i", "a", "l">>,
      <<"H", "o", "m", "e", "p", "a", "g", "e">>,
      <<"I", "n", "s", "t", "a", "l", "l", "e", "d", "-", "S", "i", "z", "e">>,
      <<"M", "a", "i", "n", "t", "a", "i", "n", "e", "r">>,
      <<"P", "a", "c", "k", "a", "g", "e">>,
      <<"P", "a", "c", "k", "a", "g", "e", "-", "T", "y", "p", "e">>,
      <<"P", "r", "i", "o", "r", "i", "t", "y">>,
      <<"S", "e", "c", "t", "i", "o", "n">>,
      <<"S", "o", "u", "r", "c", "e">>,
      <<"S", "t", "a", "n", "d", "a", "r", "d", "s", "-", "V", "e", "r", "s", "i", "o", "n">>,
      <<"V", "c", "s", "-", "B", "r", "o", "w", "s", "e", "r">>,
      <<"V", "c", "s", "-", "G", "i", "t">>,
      <<"V", "e", "r", "s", "i", "o", "n">> }

FoldedKeys ==
    { <<"B", "i", "n", "a", "r", "i", "e", "s">>,
      <<"B", "r", "e", "a", "k", "s">>,
      <<"B", "u", "i", "l", "d", "-", "D", "e", "p", "e", "n", "d", "s">>,
      <<"B", "u", "i", "l", "d", "-", "D", "e", "p", "e", "n", "d", "s", "-", "I", "n", "d", "e", "p">>,
      <<"D", "e", "p", "e", "n", "d", "s">>,
      <<"D", "g", "i", "t">>,
      <<"P", "r", "e", "-", "D", "e", "p", "e", "n", "d", "s">>,
      <<"R", "e", "c", "o", "m", "m", "e", "n", "d", "s">>,
      <<"R", "e", "p", "l", "a", "c", "e", "s">>,
      <<"S", "u", "g", "g", "e", "s", "t", "s">>,
      <<"U", "p", "l", "o", "a", "d", "e", "r", "s">> }

MultiLineKeys == { <<"D", "e", "s", "c", "r", "i", "p", "t", "i", "o", "n">> }

\* ControlValue::new
ControlValueNew(key, val) ==
    IF key \in SimpleKeys THEN [kind |-> "Simple", v |-> val]
    ELSE IF key \in FoldedKeys THEN [kind |-> "Folded", v |-> val]
    ELSE IF key \in MultiLineKeys THEN [kind |-> "MultiLine", v |-> val]
    ELSE [kind |-> "Simple", v |-> val]

\* ControlEntry::new
ControlEntryNew(key, val) == [key |-> key, value |-> ControlValueNew(key, val)]

add_entry(es, key, val) == Append(es, ControlEntryNew(key, val))

\* The index of the first entry with the key, 0 if there is none.
FirstWithKey(es, key) ==
    LET S == {i \in 1..Len(es) : es[i].key = key}
    IN  IF S = {} THEN 0 ELSE CHOOSE i \in S : \A j \in S : i <= j

\* update_entry giving the new value to every entry with the key.
update_entry_all(es, key, val) ==
    IF FirstWithKey(es, key) # 0
    THEN [entries |-> [i \in 1..Len(es) |->
                          IF es[i].key = key
                          THEN [es[i] EXCEPT !.value = ControlValueNew(key, val)]
                          ELSE es[i]],
          result |-> TRUE]
    ELSE [entries |-> add_entry(es, key, val), result |-> FALSE]

\* update_entry: the entries afterwards and the value returned.
update_entry(es, key, val) ==
    IF FirstWithKey(es, key) # 0
    THEN [entries |-> [es EXCEPT ![FirstWithKey(es, key)].value = ControlValueNew(key, val)],
          result |-> TRUE]
    ELSE [entries |-> add_entry(es, key, val), result |-> FALSE]

has_entry(es, key) == FirstWithKey(es, key) # 0

get_entry(es, key) ==
    IF FirstWithKey(es, key) # 0 THEN Some(es[FirstWithKey(es, key)].value.v) ELSE None

(***************************************************************************)
(* The paragraph specification: a caller makes add_entry and update_entry  *)
(* calls on one ControlParagraph.                                          *)
(***************************************************************************)
ParagraphKeys == { <<"S", "o", "u", "r", "c", "e">>, <<"D", "e", "p", "e", "n", "d", "s">>, <<"D", "e", "s", "c", "r", "i", "p", "t", "i", "o", "n">>, <<"X", "-", "N", "o", "t", "e">> }
ParagraphValues == { <<"1">>, <<"2">> }

InitParagraph ==
    /\ overflow_checks \in BOOLEAN
    /\ pc = "paragraph"
    /\ entries = <<>>
    /\ ret = Idle
    /\ file = Idle /\ ln = 0 /\ cur_entry = Idle /\ cur_para = Idle /\ paragraphs = Idle
    /\ s = Idle /\ parsed = Idle /\ text = Idle /\ reparsed = Idle /\ part = Idle
    /\ sa = Idle /\ sb = Idle /\ sc = Idle
    /\ va = Idle /\ vb = Idle /\ vc = Idle /\ ord = Idle
    /\ dl = Idle /\ deps = Idle
    /\ dep = Idle /\ pos = 0 /\ scan = Idle /\ single = Idle

AddEntry ==
    /\ pc = "paragraph"
    /\ Len(entries) < MaxEntries
    /\ \E key \in ParagraphKeys, val \in ParagraphValues :
          /\ entries' = add_entry(entries, key, val)
          /\ ret' = [op |-> "add_entry", key |-> key, val |-> val]
    /\ UNCHANGED <<scanVars, overflow_checks, pc, s, parsed, text, reparsed, part,
                   sa, sb, sc, va, vb, vc, ord, dl, deps,
                   file, ln, cur_entry, cur_para, paragraphs>>

UpdateEntry ==
    /\ pc = "paragraph"
    /\ Len(entries) < MaxEntries
    /\ \E key \in ParagraphKeys, val \in ParagraphValues :
          /\ entries' = update_entry(entries, key, val).entries
          /\ ret' = [op |-> "update_entry", key |-> key, val |-> val,
                     result |-> update_entry(entries, key, val).result]
    /\ UNCHANGED <<scanVars, overflow_checks, pc, s, parsed, text, reparsed, part,
                   sa, sb, sc, va, vb, vc, ord, dl, deps,
                   file, ln, cur_entry, cur_para, paragraphs>>

NextParagraph == AddEntry \/ UpdateEntry

SpecParagraph == InitParagraph /\ [][NextParagraph]_vars

\* C21: update_entry(k, v) returns true iff an entry with key k existed; if
\* so the number and order of the entries stay and only the first entry with
\* key k gets the new value; if not exactly one entry (k, v) is appended at
\* the end; either way get_entry(k) then returns v.
C21_UpdateEntry ==
    [][ ret'.op = "update_entry" =>
          LET k == ret'.key
              v == ret'.val
              at == {i \in 1..Len(entries) : entries[i].key = k}
          IN  /\ ret'.result = (at # {})
              /\ at # {} =>
                    /\ Len(entries') = Len(entries)
                    /\ \A i \in 1..Len(entries) :
                          /\ entries'[i].key = entries[i].key
                          /\ IF i \in at /\ \A j \in at : i <= j
                             THEN entries'[i].value.v = v
                             ELSE entries'[i].value = entries[i].value
              /\ at = {} =>
                    /\ Len(entries') = Len(entries) + 1
                    /\ SubSeq(entries', 1, Len(entries)) = entries
                    /\ entries'[Len(entries')].key = k
                    /\ entries'[Len(entries')].value.v = v
              /\ get_entry(entries', k) = Some(v)
      ]_vars

C21_Witness ==
    /\ pc = "paragraph"
    /\ ret # Idle
    /\ ret.op = "update_entry"
    /\ ret.result
    /\ \E i, j \in 1..Len(entries) :
          /\ i < j
          /\ entries[i].key = ret.key /\ entries[j].key = ret.key
          /\ entries[i].value.v = ret.val
          /\ entries[j].value.v # ret.val

(***************************************************************************)
(* Claims about the order of VersionParts.                                 *)
(***************************************************************************)
\* x comes before y in the lexicographic order of character sequences.
LexLess(x, y) ==
    \E k \in 0..Len(x) :
        /\ k <= Len(y)
        /\ SubSeq(x, 1, k) = SubSeq(y, 1, k)
        /\ IF k = Len(x) THEN k < Len(y)
           ELSE k < Len(y) /\ CharCode(x[k + 1]) < CharCode(y[k + 1])

\* The order of two elements: numeric first, alpha only for equal numerics.
ElementOrder(x, y) ==
    IF x.numeric # y.numeric THEN UCmp(x.numeric, y.numeric)
    ELSE IF LexLess(x.alpha, y.alpha) THEN "Less"
    ELSE IF LexLess(y.alpha, x.alpha) THEN "Greater"
    ELSE "Equal"

\* C22: VersionParts are compared as sequences: the first pair of elements
\* that differ decides, by numeric first and by alpha only for equal
\* numerics; without such a pair the shorter part is the smaller.  A '~' has
\* no rule of its own: "1~0" is greater than "1".
C22_PartsComparedAsSequences ==
    pc = "compared" =>
        LET xs == va.v.upstream_version
            ys == vb.v.upstream_version
            differ == {i \in 1..Len(xs) : i <= Len(ys) /\ xs[i] # ys[i]}
        IN  /\ differ # {} => ord.part_ab = ElementOrder(xs[SetMin(differ)], ys[SetMin(differ)])
            /\ differ = {} =>
                  ord.part_ab = IF Len(xs) < Len(ys) THEN "Less"
                                ELSE IF Len(xs) > Len(ys) THEN "Greater"
                                ELSE "Equal"
            /\ (sa = <<"1">> /\ sb = <<"1", "~", "0">>) => ord.part_ab = "Less"

C22_Witness ==
    /\ pc = "compared"
    /\ sa = <<"1">>
    /\ sb = <<"1", "~", "0">>
    /\ Len(va.v.upstream_version) = 1
    /\ Len(vb.v.upstream_version) = 2
    /\ vb.v.upstream_version[2].alpha = <<"~">>
    /\ ord.part_ab = "Less"

(***************************************************************************)
(* Claims about the states of the scanner.                                 *)
(***************************************************************************)
StrayCharacter == <<"p", " ", "[", "a", "]", " ", "x">>
TwoStrayCharacters == <<"p", " ", "[", "a", "]", " ", "x", "y">>

\* C23: in PreDependencyCondition whitespace is skipped, '<' opens a
\* condition with condition = Some(""), and any other character moves to
\* Done, with no error and without being stored; so 'p [a] x' returns Ok
\* with condition None and 'p [a] xy' fails with "garbage after arch".
C23_OneStrayCharacterTolerated ==
    [][ /\ (pc = "scanning" /\ pos' = pos + 1 /\ scan.st = "PreDependencyCondition") =>
            LET ch == dep[pos + 1]
            IN  IF IsWhitespace(ch) THEN scan' = scan
                ELSE IF ch = "<"
                THEN scan' = [scan EXCEPT !.st = "InDependencyCondition",
                                          !.condition = Some(<<>>)]
                ELSE scan' = [scan EXCEPT !.st = "Done"]
        /\ (pc = "scanning" /\ pc' = "returned" /\ dep = StrayCharacter) =>
              /\ IsOk(single')
              /\ single'.v.arch = Some(<<"a">>)
              /\ single'.v.condition = None
        /\ (pc = "scanning" /\ pc' = "returned" /\ dep = TwoStrayCharacters) =>
              /\ single'.status = "Err"
              /\ single'.err = "garbage after arch"
      ]_vars

C23_Witness ==
    /\ pc = "returned"
    /\ dep = StrayCharacter
    /\ IsOk(single)
    /\ single.v.package = <<"p">>
    /\ single.v.condition = None

\* The place of a scanner state in the order of the states.
StateRank(st) ==
    CASE st = "PackageName" -> 1
      [] st = "PreVersion" -> 2
      [] st = "InVersionRel" -> 3
      [] st = "InVersionDef" -> 4
      [] st = "PreArch" -> 5
      [] st = "InArch" -> 6
      [] st = "PreDependencyCondition" -> 7
      [] st = "InDependencyCondition" -> 8
      [] st = "Done" -> 9

IsPrefixOf(x, y) == Len(x) <= Len(y) /\ SubSeq(y, 1, Len(x)) = x

\* C24: the scanner state only moves forward in the order PackageName,
\* PreVersion, InVersionRel, InVersionDef, PreArch, InArch,
\* PreDependencyCondition, InDependencyCondition, Done; version and arch,
\* once set, stay as they are, a condition once opened is only extended, and
\* Done is left only by an error.
C24_StatesOnlyMoveForward ==
    [][ (pc = "scanning" /\ pos' = pos + 1 /\ scan'.status = "Scanning") =>
            /\ StateRank(scan'.st) >= StateRank(scan.st)
            /\ scan.version # None => scan'.version = scan.version
            /\ scan.arch # None => scan'.arch = scan.arch
            /\ scan.condition # None =>
                  /\ scan'.condition # None
                  /\ IsPrefixOf(scan.condition[1], scan'.condition[1])
            /\ scan.st = "Done" => scan'.st = "Done"
      ]_vars

C24_Witness ==
    /\ pc = "returned"
    /\ dep = <<"p", " ", "(", "=", " ", "1", ")", " ", "[", "a", "]", " ", "<", "c", ">">>
    /\ scan.status = "Scanning"
    /\ scan.st = "Done"
    /\ scan.version # None
    /\ scan.arch = Some(<<"a">>)
    /\ scan.condition = Some(<<"c">>)

\* C25: whenever the scanner is in InDependencyCondition, condition is Some,
\* and no character read in that state reaches the unreachable!() arm.
C25_ConditionIsSomeInCondition ==
    [][ (pc = "scanning" /\ scan.status = "Scanning"
            /\ scan.st = "InDependencyCondition") =>
            /\ scan.condition # None
            /\ pos' = pos + 1 => scan'.status # "Panic"
      ]_vars

C25_Witness ==
    /\ pc = "scanning"
    /\ scan.status = "Scanning"
    /\ scan.st = "InDependencyCondition"
    /\ scan.arch = None
    /\ scan.condition = Some(<<>>)
    /\ pos < Len(dep)

\* The messages of the `return Err(..)` statements of parse_single_dep.
ErrorMessages ==
    { "garbage after package name", "no version given", "error parsing version",
      "invalid relation", "garbage after version", "empty arch given",
      "garbage after arch" }

\* An error is returned at the character that gave rise to its message;
\* a text that ends, in whatever state, gives Ok: with version = None inside
\* '(', arch = None inside '[', and the text read so far as condition
\* inside '<'.
ErrorsOnlyAtCharacters ==
    pc = "returned" =>
        /\ single.status = "Err" =>
              /\ pos >= 1
              /\ single.err \in ErrorMessages
              /\ single.err \in {"garbage after package name", "garbage after version",
                                 "garbage after arch"} => ~IsWhitespace(dep[pos])
              /\ single.err \in {"no version given", "error parsing version",
                                 "invalid relation"} => dep[pos] = ")"
              /\ single.err = "empty arch given" => dep[pos] = "]"
        /\ scan.status = "Scanning" =>
              /\ pos = Len(dep)
              /\ IsOk(single)
              /\ scan.st \in {"InVersionRel", "InVersionDef"} => single.v.version = None
              /\ scan.st = "InArch" => single.v.arch = None
              /\ scan.st = "InDependencyCondition" =>
                    /\ ConditionOpen # 0 /\ ConditionClose = 0
                    /\ single.v.condition =
                          Some(SubSeq(dep, ConditionOpen + 1, Len(dep)))
        /\ (VersionOpen # 0 /\ VersionClose = 0) =>
              (IsOk(single) /\ single.v.version = None)
        /\ (ArchOpen # 0 /\ ArchClose = 0 /\ single.status # "Err") =>
              (IsOk(single) /\ single.v.arch = None)

\* C26 as stated: an error is reported only at a character that gives rise
\* to one of the six error messages of parse_single_dep; a text that ends
\* inside a clause or in any other state gives Ok.
C26_SixErrorMessages ==
    /\ ErrorsOnlyAtCharacters
    /\ (pc = "returned" /\ single.status = "Err") => Cardinality(ErrorMessages) = 6

\* C26, amended: an error is reported only at a character that gives rise
\* to one of the seven error messages of parse_single_dep; a text that ends
\* inside a clause or in any other state gives Ok, an unclosed '(' leaving
\* version = None, an unclosed '[' arch = None, and an unclosed '<' the text
\* read so far as condition.
C26_SevenErrorMessages ==
    /\ ErrorsOnlyAtCharacters
    /\ (pc = "returned" /\ single.status = "Err") => Cardinality(ErrorMessages) = 7

C26_Witness ==
    /\ pc = "returned"
    /\ dep = <<"p", " ", "<", "!", "c">>
    /\ scan.st = "InDependencyCondition"
    /\ IsOk(single)
    /\ single.v.condition = Some(<<"!", "c">>)

\* C27: a SingleDependency returned with condition = None is given back by
\* parsing its rendered text: the same package, the same relation, an equal
\* Version and the same arch.
C27_SingleDependencyRoundTrip ==
    (pc = "single_reparsed" /\ single.v.condition = None) =>
        /\ IsOk(reparsed)
        /\ reparsed.v.package = single.v.package
        /\ reparsed.v.arch = single.v.arch
        /\ reparsed.v.condition = None
        /\ (single.v.version = None) = (reparsed.v.version = None)
        /\ single.v.version # None =>
              /\ reparsed.v.version[1][1] = single.v.version[1][1]
              /\ VersionEq(reparsed.v.version[1][2], single.v.version[1][2])

(***************************************************************************)
(* Claims about the slices and the elements of a version.                  *)
(***************************************************************************)
\* C28: when the text holds a ':' and a '-' and the text before the first
\* ':' parses as an epoch, the last '-' lies after the first ':', so that
\* the upstream slice from first-colon + 1 to last-dash is a valid (possibly
\* empty) range: the slice does not panic, and it is what the upstream
\* version is parsed from.
C28_UpstreamSliceIsValid ==
    (HasParsed /\ EpochSeparator(s) # 0 /\ PositionsOf(s, "-") # {}
        /\ IsOk(U32FromStr(SubSeq(s, 1, EpochSeparator(s) - 1)))) =>
        LET l == EpochSeparator(s)
            r == SetMax(PositionsOf(s, "-"))
        IN  /\ l < r
            /\ IsOk(Slice(s, l + 1, r))
            /\ IsOk(parsed) =>
                  Ok(parsed.v.upstream_version) =
                      parse_part(SubSeq(s, l + 1, r - 1), overflow_checks)

C28_Witness ==
    /\ HasParsed
    /\ s = <<"1", ":", "-", "1">>
    /\ IsOk(parsed)
    /\ parsed.v.upstream_version = <<>>
    /\ Len(parsed.v.debian_revision) = 1

\* C29: parse_part returns no element iff the text is empty; otherwise at
\* least one; no alpha holds an ASCII digit; every element after the first
\* has a non-empty alpha; a text ending in a non-digit ends in an element
\* with numeric 0.  Hence the debian_revision of a parsed version has no
\* element exactly when no text follows the last '-' (or there is no '-').
C29_ElementsOfAPart ==
    /\ (pc \in {"part_parsed", "part_rendered"} /\ IsOk(part)) =>
          /\ (Len(part.v) = 0) = (s = <<>>)
          /\ \A k \in 1..Len(part.v) :
                /\ \A i \in 1..Len(part.v[k].alpha) : ~IsAsciiDigit(part.v[k].alpha[i])
                /\ k > 1 => part.v[k].alpha # <<>>
          /\ (s # <<>> /\ ~IsAsciiDigit(s[Len(s)])) =>
                /\ part.v[Len(part.v)].numeric = Zero
                /\ part.v[Len(part.v)].alpha # <<>>
    /\ (HasParsed /\ IsOk(parsed)) =>
          (count_elements(parsed.v.debian_revision) = 0)
              = (PositionsOf(s, "-") = {} \/ s[Len(s)] = "-")

C29_Witness ==
    /\ pc = "part_parsed"
    /\ s = <<"1", ".", "0", "a">>
    /\ IsOk(part)
    /\ Len(part.v) = 3
    /\ part.v[3] = VersionElement(<<"a">>, Zero)

(***************************************************************************)
(* control.rs: ControlFile::from_file.  A file is the sequence of the      *)
(* texts that read_line returns one after the other, each with its line    *)
(* end; at the end of the file read_line returns the empty text.           *)
(***************************************************************************)
\* Termination of the entry text v: `v.splitn(2, ':')`; a text without ':'
\* adds nothing.
TerminateEntry(para, v) ==
    IF Find(v, ":") = 0 THEN para
    ELSE add_entry(para, SubSeq(v, 1, Find(v, ":") - 1),
                   Trim(SubSeq(v, Find(v, ":") + 1, Len(v))))

\* The match on (cur_entry, is_indented, is_end_of_para): the entry text and
\* the paragraph after it.
EntryAfterLine(entry, para, line, is_indented, is_end_of_para) ==
    IF entry # None /\ ~is_indented THEN
        [cur_entry |-> IF is_end_of_para THEN None ELSE Some(line),
         cur_para |-> TerminateEntry(para, entry[1])]
    ELSE IF entry # None /\ is_indented /\ ~is_end_of_para THEN
        [cur_entry |-> Some(entry[1] \o line), cur_para |-> para]
    ELSE IF entry = None /\ ~is_end_of_para THEN
        [cur_entry |-> Some(line), cur_para |-> para]
    ELSE
        [cur_entry |-> None, cur_para |-> para]

(***************************************************************************)
(* The file specification: from_file reads one file line by line.          *)
(***************************************************************************)
\* The lines of a file, and the texts a file may end in without a line end.
FileLines ==
    { <<"k", ":", " ", "v", "\n">>,
      <<"D", ":", "w", "\n">>,
      <<" ", "x", "\n">>,
      <<"\n">>,
      <<" ", "\n">>,
      <<"\t", "\n">> }

LastLines == { <<"k", ":", " ", "v">>, <<" ">> }

RECURSIVE FilesUpTo(_)
FilesUpTo(n) ==
    IF n = 0 THEN {<<>>}
    ELSE FilesUpTo(n - 1)
             \cup {Append(f, l) : f \in {g \in FilesUpTo(n - 1) : Len(g) = n - 1},
                                  l \in FileLines}

FileInputs ==
    FilesUpTo(MaxLines) \cup {Append(f, l) : f \in FilesUpTo(MaxLines - 1), l \in LastLines}

InitFile ==
    /\ overflow_checks \in BOOLEAN
    /\ pc = "reading"
    /\ file \in FileInputs
    /\ ln = 0
    /\ cur_entry = None
    /\ cur_para = <<>>
    /\ paragraphs = <<>>
    /\ entries = Idle /\ ret = Idle
    /\ s = Idle /\ parsed = Idle /\ text = Idle /\ reparsed = Idle /\ part = Idle
    /\ sa = Idle /\ sb = Idle /\ sc = Idle
    /\ va = Idle /\ vb = Idle /\ vc = Idle /\ ord = Idle
    /\ dl = Idle /\ deps = Idle
    /\ dep = Idle /\ pos = 0 /\ scan = Idle /\ single = Idle

\* One turn of the loop: read a line, close or extend the entry, close the
\* paragraph, and leave the loop at the end of the file.
ReadLine ==
    /\ pc = "reading"
    /\ LET line == IF ln < Len(file) THEN file[ln + 1] ELSE <<>>
           is_eof == line = <<>>
           is_end_of_para == Trim(line) = <<>>
           is_indented == line # <<>> /\ Head(line) = " " /\ Len(line) > 1
           after == EntryAfterLine(cur_entry, cur_para, line, is_indented, is_end_of_para)
       IN  /\ cur_entry' = after.cur_entry
           /\ IF is_end_of_para /\ after.cur_para # <<>>
              THEN /\ paragraphs' = Append(paragraphs, after.cur_para)
                   /\ cur_para' = <<>>
              ELSE /\ paragraphs' = paragraphs
                   /\ cur_para' = after.cur_para
           /\ pc' = IF is_eof THEN "file_read" ELSE "reading"
    /\ ln' = ln + 1
    /\ UNCHANGED <<scanVars, overflow_checks, s, parsed, text, reparsed, part,
                   sa, sb, sc, va, vb, vc, ord, dl, deps, entries, ret, file>>

NextFile == ReadLine

SpecFile == InitFile /\ [][NextFile]_vars

(***************************************************************************)
(* Claims about ControlFile::from_file.                                    *)
(***************************************************************************)
IsBlankLine(l) == Trim(l) = <<>>
StartsWithSpace(l) == l # <<>> /\ Head(l) = " "

\* The 'key: value' lines of the file.
FieldLines ==
    {i \in 1..Len(file) :
        ~IsBlankLine(file[i]) /\ ~StartsWithSpace(file[i]) /\ Find(file[i], ":") # 0}

\* The last of the continuation lines of the field at line i.
ContinuationEnd(i) ==
    SetMax({j \in i..Len(file) :
               \A m \in i + 1..j : StartsWithSpace(file[m]) /\ ~IsBlankLine(file[m])})

RECURSIVE LinesJoined(_, _)
LinesJoined(i, j) == IF i > j THEN <<>> ELSE file[i] \o LinesJoined(i + 1, j)

FieldKey(i) == SubSeq(file[i], 1, Find(file[i], ":") - 1)
FieldValue(i) ==
    LET whole == LinesJoined(i, ContinuationEnd(i))
    IN  Trim(SubSeq(whole, Find(whole, ":") + 1, Len(whole)))

RECURSIVE AllEntries(_)
AllEntries(paras) ==
    IF paras = <<>> THEN <<>> ELSE Head(paras) \o AllEntries(Tail(paras))

\* The fields that open a paragraph: the first one, and every one with a
\* blank line between it and the field before it.
OpeningFields ==
    {f \in FieldLines :
        \A g \in FieldLines :
            g < f => \E j \in g + 1..f - 1 : IsBlankLine(file[j])}

\* C30: from_file keeps every field it reads: each 'key: value' line with
\* its continuation lines is an entry of its paragraph, whatever line
\* follows it (a field, a blank line, the end of the file, a blank line that
\* begins with a space), in the order of the file; no paragraph is empty,
\* and the paragraphs are the runs of fields between blank lines.
C30_EveryFieldIsKept ==
    pc = "file_read" =>
        /\ Len(AllEntries(paragraphs)) = Cardinality(FieldLines)
        /\ \A k \in 1..Cardinality(FieldLines) :
              /\ AllEntries(paragraphs)[k].key = FieldKey(KthOf(FieldLines, k))
              /\ AllEntries(paragraphs)[k].value.v = FieldValue(KthOf(FieldLines, k))
        /\ \A p \in 1..Len(paragraphs) : paragraphs[p] # <<>>
        /\ Len(paragraphs) = Cardinality(OpeningFields)

====
